---- MODULE Spec2Model ----
(***************************************************************************)
(* A model of the PubMed client library (createPubMedAPI): the TTL cache   *)
(* store, fetchArticles, getFullText with its availability resolution,     *)
(* and the process-wide GlobalRateLimiter.                                  *)
(*                                                                         *)
(* Three specifications share the module:                                  *)
(*   Spec          the client over a cache directory and a remote service  *)
(*   RepeatSpec    the same client asked for one identifier repeatedly     *)
(*   ThrottleSpec  the promise chain of GlobalRateLimiter.execute           *)
(***************************************************************************)
EXTENDS Integers, Sequences, FiniteSets, TLC

(***************************************************************************)
(* Bounds of the model.                                                    *)
(***************************************************************************)
MaxPmid == 2
MaxLen == 2
\* calls and damages of the cache directory in one run
MaxOps == 2
MaxTicks == 1
\* execute() invocations in one run of the throttle, and the end of its clock
MaxSubmits == 3
MaxClock == 1000
\* options.cacheTTL, in seconds, as configured for the modelled client
cacheTTL == 1

(***************************************************************************)
(* Program constants.                                                      *)
(***************************************************************************)
\* (now - timestamp) / 1000 : milliseconds per second
MsPerSec == 1000

\* the step of the clock: one second
TickMs == MsPerSec

\* const delayMs = apiKey ? 100 : 334 of makeRequest
DelayWithKey == 100
DelayWithoutKey == 334

\* identifiers are strings in the program: "1", "2", ...
PmidOf == [i \in 1 .. MaxPmid |-> ToString(i)]
PMIDs == {PmidOf[i] : i \in 1 .. MaxPmid}

\* JavaScript's undefined and null, as values of string-typed fields
Undefined == "<undefined>"
Null == "<null>"

Min(a, b) == IF a < b THEN a ELSE b

\* all sequences over S of length 0 .. n
SeqsUpTo(S, n) == UNION {[1 .. k -> S] : k \in 0 .. n}

\* the subsequence of s whose elements satisfy Test (Array.prototype.filter)
RECURSIVE SelectIn(_, _)
SelectIn(s, keep) ==
  IF s = <<>> THEN <<>>
  ELSE IF Head(s) \in keep THEN <<Head(s)>> \o SelectIn(Tail(s), keep)
  ELSE SelectIn(Tail(s), keep)

Range(s) == {s[i] : i \in 1 .. Len(s)}

(***************************************************************************)
(* Objects: a JavaScript object is a function from its own keys; reading a *)
(* missing key gives undefined, JSON.stringify omits undefined values.     *)
(***************************************************************************)
Get(obj, key) == IF key \in DOMAIN obj THEN obj[key] ELSE Undefined

\* the truthiness of a string or undefined value, as in `apiKey ? ... : ...`
Truthy(value) == value \notin {Undefined, ""}

\* const { key = dflt } = obj
Opt(obj, key, dflt) == IF key \in DOMAIN obj THEN obj[key] ELSE dflt

\* { ...obj, key: value }
WithKey(obj, key, value) ==
  [k \in DOMAIN obj \cup {key} |-> IF k = key THEN value ELSE obj[k]]

\* const { key, ...rest } = obj: the rest
Without(obj, key) == [k \in DOMAIN obj \ {key} |-> obj[k]]

JsonStringify(obj) ==
  [k \in {j \in DOMAIN obj : obj[j] # Undefined} |-> obj[k]]

Title(pmid) == IF pmid = "1" THEN "title-1" ELSE "title-n"

\* newArticle of fetchArticles, from one PubmedArticle record of the response
NewArticle(rec) ==
  [pmid |-> rec.pmid, title |-> Title(rec.pmid), pmcId |-> rec.pmc]

(***************************************************************************)
(* Files of the cache directory.                                          *)
(*   summary/<pmid>.json : none | garbage (JSON.parse throws) |           *)
(*                         json, an object with optional data, timestamp   *)
(*   fulltext/<pmid>.md  : none | file with a first line (a timestamp      *)
(*                         marker or not) and the text after it            *)
(***************************************************************************)
NoFile == [kind |-> "none"]
Garbage == [kind |-> "garbage"]
JsonFile(obj) == [kind |-> "json", obj |-> obj]
TextFile(marker, ts, body) ==
  [kind |-> "text", marker |-> marker, ts |-> ts, body |-> body]

VARIABLES
  cacheEnabled,   \* options.cacheDir is set (cache # null)
  diskWritable,   \* mkdir and writeFile of the cache directory succeed
  now,            \* Date.now(), in ms
  summaryFiles,   \* [PMIDs -> file] : <cacheDir>/summary
  fulltextFiles,  \* [PMIDs -> file] : <cacheDir>/fulltext
  lastCall,       \* the last API call: arguments, outcome, outbound requests
  nops,           \* the calls made and the damages done so far
  \* GlobalRateLimiter
  calls,          \* the execute() invocations so far, in invocation order
  queue,          \* this.queue: the call whose settling it follows (0: resolved)
  clock,          \* the time of the throttle's timers, in ms
  \* the handlers
  clients         \* the call in flight of each handler's client

cacheVars == <<cacheEnabled, diskWritable, now, summaryFiles, fulltextFiles,
               lastCall, nops>>
throttleVars == <<calls, queue, clock>>
vars == <<cacheEnabled, diskWritable, now, summaryFiles, fulltextFiles,
          lastCall, nops, calls, queue, clock, clients>>

(***************************************************************************)
(* createCacheUtils                                                        *)
(***************************************************************************)
\* variant: an entry whose age equals the TTL still counts as valid
isCacheEntryValidInclusive(timestamp, t) ==
  (t - timestamp) <= cacheTTL * MsPerSec

isCacheEntryValid(timestamp, t) ==
  \* age = (now - timestamp) / 1000; return age < cacheTTL
  (t - timestamp) < cacheTTL * MsPerSec

\* variant: an expired or timestamp-less entry is reported absent but kept
getCachedSummaryKeeping(files, pmid, t) ==
  LET f == files[pmid] IN
  IF /\ f.kind = "json"
     /\ "timestamp" \in DOMAIN f.obj
     /\ isCacheEntryValid(f.obj.timestamp, t)
     /\ "data" \in DOMAIN f.obj
  THEN [ret |-> "value", value |-> <<f.obj.data>>, files |-> files]
  ELSE [ret |-> "null", value |-> <<>>, files |-> files]

\* variant: serving an entry writes it anew with the time of the read
getCachedSummaryTouching(files, pmid, t) ==
  LET f == files[pmid] IN
  IF f.kind # "json" THEN
    [ret |-> "null", value |-> <<>>, files |-> files]
  ELSE IF /\ "timestamp" \in DOMAIN f.obj
          /\ isCacheEntryValid(f.obj.timestamp, t) THEN
    IF "data" \in DOMAIN f.obj
    THEN [ret |-> "value", value |-> <<f.obj.data>>,
          files |-> [files EXCEPT ![pmid] =
                       JsonFile([data |-> f.obj.data, timestamp |-> t])]]
    ELSE [ret |-> "undefined", value |-> <<>>, files |-> files]
  ELSE
    [ret |-> "null", value |-> <<>>, files |-> [files EXCEPT ![pmid] = NoFile]]

\* getCachedSummary: what it returns ("null", "undefined" or "value" with the
\* value in a one-element sequence) and the files afterwards
getCachedSummary(files, pmid, t) ==
  LET f == files[pmid] IN
  IF f.kind # "json" THEN
    \* readFile or JSON.parse threw: catch, return null
    [ret |-> "null", value |-> <<>>, files |-> files]
  ELSE IF /\ "timestamp" \in DOMAIN f.obj
          \* a missing timestamp makes the age NaN, and NaN < cacheTTL is false
          /\ isCacheEntryValid(f.obj.timestamp, t) THEN
    IF "data" \in DOMAIN f.obj
    THEN [ret |-> "value", value |-> <<f.obj.data>>, files |-> files]
    ELSE [ret |-> "undefined", value |-> <<>>, files |-> files]
  ELSE
    \* expired: unlink, return null
    [ret |-> "null", value |-> <<>>, files |-> [files EXCEPT ![pmid] = NoFile]]

\* variant: nothing is ever written
setCachedSummaryLost(files, pmid, article, t, writable) == files

\* setCachedSummary: a failure of ensureCacheDir or writeFile is swallowed
setCachedSummary(files, pmid, article, t, writable) ==
  IF writable
  THEN [files EXCEPT ![pmid] =
          JsonFile([data |-> JsonStringify(article), timestamp |-> t])]
  ELSE files

\* String.prototype.trim on the text after the marker line
Trim(body) == IF body \in {"", " "} THEN "" ELSE body

\* getCachedFullText: what it returns ("null", or "value" with the string in a
\* one-element sequence) and the files afterwards
getCachedFullText(files, pmid, t) ==
  LET f == files[pmid] IN
  IF f.kind # "text" THEN
    [ret |-> "null", value |-> <<>>, files |-> files]
  ELSE IF ~f.marker THEN
    \* old format or corrupted file: unlink, return null
    [ret |-> "null", value |-> <<>>, files |-> [files EXCEPT ![pmid] = NoFile]]
  ELSE IF isCacheEntryValid(f.ts, t) THEN
    [ret |-> "value", value |-> <<Trim(f.body)>>, files |-> files]
  ELSE
    [ret |-> "null", value |-> <<>>, files |-> [files EXCEPT ![pmid] = NoFile]]

setCachedFullText(files, pmid, fullText, t, writable) ==
  IF writable
  THEN [files EXCEPT ![pmid] = TextFile(TRUE, t, fullText)]
  ELSE files

(***************************************************************************)
(* The remote service.  A summary response is the list of PubmedArticle    *)
(* records it holds, in the order the service chose; each carries the      *)
(* identifier and, when the record has one, the id of its full-text source. *)
(***************************************************************************)
SummaryPmcs == {Undefined, "PMC_A"}

\* the sequences over S without repetition, of every length
RECURSIVE Arrangements(_)
Arrangements(S) ==
  {<<>>} \cup UNION {{<<x>> \o a : a \in Arrangements(S \ {x})} : x \in S}

\* the summary responses the service can give to a request for the pmids ids
SummaryResponses(ids) ==
  UNION {{[i \in 1 .. Len(a) |-> [pmid |-> a[i], pmc |-> pmc[a[i]]]] :
            pmc \in [Range(a) -> SummaryPmcs]} : a \in Arrangements(ids)}

Request(tool, ids) == [tool |-> tool, ids |-> ids]

\* the status codes the service answers with
Statuses == {200, 404, 500}

\* response.ok of fetch: the status is in the range 200-299
ResponseOk(status) == status >= 200 /\ status <= 299

\* variant: an error that does not tell the status
HttpErrorPlain(status) == "HTTP error!"

\* new Error(`HTTP error! status: ${response.status}`) of makeRequest
HttpError(status) == "HTTP error! status: " \o ToString(status)

(***************************************************************************)
(* fetchArticles                                                           *)
(***************************************************************************)
\* pmids.map(getCachedSummary), one after the other: the values found, flattened,
\* and the files afterwards
RECURSIVE ReadSummaries(_, _, _)
ReadSummaries(files, pmids, t) ==
  IF pmids = <<>> THEN [found |-> <<>>, files |-> files]
  ELSE LET r == getCachedSummary(files, Head(pmids), t)
           rest == ReadSummaries(r.files, Tail(pmids), t)
       IN [found |-> r.value \o rest.found, files |-> rest.files]

\* array.find(x => x.pmid === pmid), as a sequence of at most one element
RECURSIVE FindByPmid(_, _)
FindByPmid(array, pmid) ==
  IF array = <<>> THEN <<>>
  ELSE IF Get(Head(array), "pmid") = pmid THEN <<Head(array)>>
  ELSE FindByPmid(Tail(array), pmid)

\* variant: the combined array is returned as it was assembled
ReorderSkipped(pmids, all) == all

\* pmids.map(pmid => all.find(x => x.pmid === pmid)).filter(Boolean)
RECURSIVE Reorder(_, _)
Reorder(pmids, all) ==
  IF pmids = <<>> THEN <<>>
  ELSE FindByPmid(all, Head(pmids)) \o Reorder(Tail(pmids), all)

\* variant: every pmid is taken as uncached
UncachedAll(pmids, found) == pmids

\* pmids.filter(pmid => !found.some(x => x.pmid === pmid))
Uncached(pmids, found) ==
  SelectIn(pmids, PMIDs \ {Get(found[i], "pmid") : i \in 1 .. Len(found)})

\* variant: an article whose cache entry cannot be written is dropped
RECURSIVE StoreFetchedIfWritten(_, _, _, _, _)
StoreFetchedIfWritten(files, records, t, enabled, writable) ==
  IF records = <<>> THEN [fetched |-> <<>>, files |-> files]
  ELSE LET article == NewArticle(Head(records))
           written == IF enabled
                      THEN setCachedSummary(files, article.pmid, article, t, writable)
                      ELSE files
           rest == StoreFetchedIfWritten(written, Tail(records), t, enabled, writable)
       IN [fetched |-> (IF enabled /\ ~writable THEN <<>> ELSE <<article>>)
                       \o rest.fetched,
           files |-> rest.files]

\* variant: the article is cached whether or not a cache exists
RECURSIVE StoreFetchedAlways(_, _, _, _, _)
StoreFetchedAlways(files, records, t, enabled, writable) ==
  IF records = <<>> THEN [fetched |-> <<>>, files |-> files]
  ELSE LET article == NewArticle(Head(records))
           written == setCachedSummary(files, article.pmid, article, t, writable)
           rest == StoreFetchedAlways(written, Tail(records), t, enabled, writable)
       IN [fetched |-> <<article>> \o rest.fetched, files |-> rest.files]

\* the for loop over the response's records: push the new article, cache it
RECURSIVE StoreFetched(_, _, _, _, _)
StoreFetched(files, records, t, enabled, writable) ==
  IF records = <<>> THEN [fetched |-> <<>>, files |-> files]
  ELSE LET article == NewArticle(Head(records))
           written == IF enabled
                      THEN setCachedSummary(files, article.pmid, article, t, writable)
                      ELSE files
           rest == StoreFetched(written, Tail(records), t, enabled, writable)
       IN [fetched |-> <<article>> \o rest.fetched, files |-> rest.files]

\* the cache check of fetchArticles
SummaryCacheCheck(files, pmids, t, enabled) ==
  IF enabled THEN ReadSummaries(files, pmids, t)
  ELSE [found |-> <<>>, files |-> files]

\* variant: no early return and no cache check, the service is always asked
fetchArticlesAlways(files, pmids, t, enabled, writable, resp) ==
  LET st == StoreFetched(files, resp.records, t, enabled, writable)
  IN [raised |-> ~resp.ok, result |-> Reorder(pmids, st.fetched),
      files |-> st.files, read |-> files,
      reqs |-> <<Request("efetch", pmids)>>]

\* fetchArticles(pmids) against the response resp = [ok, records] of the service
fetchArticles(files, pmids, t, enabled, writable, resp) ==
  IF pmids = <<>> THEN
    [raised |-> FALSE, result |-> <<>>, files |-> files, read |-> files,
     reqs |-> <<>>]
  ELSE
    LET check == SummaryCacheCheck(files, pmids, t, enabled)
        cachedArticles == check.found
        uncachedPmids == Uncached(pmids, cachedArticles)
    IN IF uncachedPmids = <<>> THEN
         [raised |-> FALSE, result |-> cachedArticles, files |-> check.files,
          read |-> check.files, reqs |-> <<>>]
       ELSE IF ~resp.ok THEN
         \* makeRequest throws: HTTP error! status: ...
         [raised |-> TRUE, result |-> <<>>, files |-> check.files,
          read |-> check.files, reqs |-> <<Request("efetch", uncachedPmids)>>,
          error |-> HttpError(resp.status)]
       ELSE
         LET st == StoreFetched(check.files, resp.records, t, enabled, writable)
             allArticles == cachedArticles \o st.fetched
         IN [raised |-> FALSE, result |-> Reorder(pmids, allArticles),
             files |-> st.files, read |-> check.files,
             reqs |-> <<Request("efetch", uncachedPmids)>>]

\* the identifiers fetchArticles(pmids) asks the service for
SummaryMisses(files, pmids, t, enabled) ==
  IF pmids = <<>> THEN {}
  ELSE Range(Uncached(pmids, SummaryCacheCheck(files, pmids, t, enabled).found))

(***************************************************************************)
(* search and searchAndFetch.  The answer to the search request is         *)
(* response = [status, body]; body = [ids, count] holds the Id elements of  *)
(* IdList as the numbers the XML parser makes of them, and Count.           *)
(***************************************************************************)
DefaultRetMax == 20
DefaultRetStart == 0

\* variant: the query is sent as it is
SearchQueryPlain(query, options) == query

\* the term of the search request: the query, with the publication-date
\* clause when dateFrom or dateTo is given
SearchQuery(query, options) ==
  LET dateFrom == Get(options, "dateFrom")
      dateTo == Get(options, "dateTo")
      from == IF Truthy(dateFrom) THEN dateFrom ELSE "1900/01/01"
      to == IF Truthy(dateTo) THEN dateTo ELSE "3000/12/31"
  IN IF Truthy(dateFrom) \/ Truthy(dateTo)
     THEN query \o " AND (\"" \o from \o "\"[Date - Publication] : \"" \o to
                \o "\"[Date - Publication])"
     ELSE query

\* searchResult.IdList ? (Array.isArray(Id) ? Id.map(String) : [String(Id)]) : []
\* the parser gives no IdList for no Id, a single value for one, an array for more
IdListOf(ids) ==
  IF ids = <<>> THEN <<>>
  ELSE IF Len(ids) > 1 THEN [i \in 1 .. Len(ids) |-> PmidOf[ids[i]]]
  ELSE <<PmidOf[ids[1]]>>

\* search(query, options) against the response of the service
search(query, options, response) ==
  LET retMax == Opt(options, "retMax", DefaultRetMax)
      retStart == Opt(options, "retStart", DefaultRetStart)
      sort == Opt(options, "sort", "relevance")
      req == [tool |-> "esearch", term |-> SearchQuery(query, options),
              retmax |-> retMax, retstart |-> retStart, sort |-> sort]
  IN IF ~ResponseOk(response.status) THEN
       [raised |-> TRUE, error |-> HttpError(response.status), result |-> <<>>,
        reqs |-> <<req>>]
     ELSE
       [raised |-> FALSE, error |-> Undefined,
        result |-> [idList |-> IdListOf(response.body.ids),
                    count |-> response.body.count,
                    retMax |-> retMax, retStart |-> retStart],
        reqs |-> <<req>>]

\* searchAndFetch(query, options) against the responses of the service to the
\* search request and to the summary request
searchAndFetch(files, query, options, t, enabled, writable, response, resp) ==
  LET maxResults == Opt(options, "maxResults", DefaultRetMax)
      searchOptions == Without(options, "maxResults")
      searchResult == search(query, WithKey(searchOptions, "retMax", maxResults),
                             response)
  IN IF searchResult.raised THEN
       [raised |-> TRUE, error |-> searchResult.error, result |-> <<>>,
        files |-> files, reqs |-> searchResult.reqs]
     ELSE
       LET fa == fetchArticles(files, searchResult.result.idList, t, enabled,
                               writable, resp)
       IN [raised |-> fa.raised, error |-> Get(fa, "error"), result |-> fa.result,
           files |-> fa.files, reqs |-> searchResult.reqs \o fa.reqs]

(***************************************************************************)
(* checkFullTextAvailability and its two lookups                           *)
(***************************************************************************)
\* const BATCH_SIZE = 200 of getLinksFromId
BATCH_SIZE == 200

ConvPmcs == {Undefined, "PMC_B"}
Url(pmid) == "https://links/" \o pmid
\* the link-out URLs the link service holds: article "1" has one, the others none
LinkLists(pmid) == IF pmid = "1" THEN <<Url(pmid)>> ELSE <<>>
\* what a request for the document of a full-text source brings: a document
\* with text, a document whose text is empty, or nothing usable (no article in
\* the answer, or the request failed)
DocOutcomes == {"text", "empty", "error"}

\* the text getFullText assembles from the document of a full-text source
FullTextOf(pmcId) == "# " \o pmcId

\* getPmcIdFromIdConverter(pmids) against the converter's answer conv =
\* [ok, pmc]: the pmcid it knows for each pmid (undefined for none)
getPmcIdFromIdConverter(pmids, conv) ==
  IF pmids = <<>> THEN [pmc |-> [p \in {} |-> Undefined], reqs |-> <<>>]
  ELSE IF ~conv.ok THEN
    \* catch: console.error, return []
    [pmc |-> [p \in {} |-> Undefined], reqs |-> <<Request("idconv", pmids)>>]
  ELSE
    [pmc |-> [p \in {q \in Range(pmids) : conv.pmc[q] # Undefined} |-> conv.pmc[p]],
     reqs |-> <<Request("idconv", pmids)>>]

\* pmids.reduce(...) of getLinksFromId: chunks of at most BATCH_SIZE
RECURSIVE Chunks(_)
Chunks(pmids) ==
  IF pmids = <<>> THEN <<>>
  ELSE <<SubSeq(pmids, 1, Min(BATCH_SIZE, Len(pmids)))>>
       \o Chunks(SubSeq(pmids, Min(BATCH_SIZE, Len(pmids)) + 1, Len(pmids)))

\* what stands before or after an identifier inside one that is a digit longer
Affixes == {"", "1", "2"}

\* String.prototype.includes on two identifiers: ids.includes(pmid) is applied
\* to the id string of a link tuple, so pmid is looked for inside id.  Of two
\* identifiers of one length, one contains the other when they are equal; the
\* identifiers of a call differ in length by one digit at most.
Includes(id, pmid) ==
  \/ id = pmid
  \/ /\ Len(pmid) < Len(id)
     /\ \E before \in Affixes, after \in Affixes : id = before \o pmid \o after

\* parseLinksFromJson on the answer to one chunk: a tuple [id, urls] for every
\* id of every link set, the service listing one link set per requested id
LinkTuples(chunk, urls) ==
  [i \in 1 .. Len(chunk) |-> <<chunk[i], urls[chunk[i]]>>]

\* links.find(([ids]) => ids.includes(pmid)), then found[1] or []
RECURSIVE FoundLinks(_, _)
FoundLinks(tuples, pmid) ==
  IF tuples = <<>> THEN <<>>
  ELSE IF Includes(Head(tuples)[1], pmid) THEN Head(tuples)[2]
  ELSE FoundLinks(Tail(tuples), pmid)

\* chunkedResults.flat(): for every chunk, [pmid, links] for each of its pmids
RECURSIVE ChunkResults(_, _)
ChunkResults(chunks, urls) ==
  IF chunks = <<>> THEN <<>>
  ELSE LET chunk == Head(chunks)
           tuples == LinkTuples(chunk, urls)
       IN [i \in 1 .. Len(chunk) |-> <<chunk[i], FoundLinks(tuples, chunk[i])>>]
          \o ChunkResults(Tail(chunks), urls)

\* getLinksFromId(pmids) against the link service's answer links = [ok, urls]
getLinksFromId(pmids, links) ==
  LET chunkedPmids == Chunks(pmids)
      reqs == [i \in 1 .. Len(chunkedPmids) |-> Request("elink", chunkedPmids[i])]
  IN IF pmids = <<>> THEN [raised |-> FALSE, links |-> <<>>, reqs |-> <<>>]
     ELSE IF ~links.ok THEN
       \* no try/catch: the rejection of makeRequest leaves Promise.all
       [raised |-> TRUE, links |-> <<>>, reqs |-> reqs]
     ELSE
       [raised |-> FALSE, links |-> ChunkResults(chunkedPmids, links.urls),
        reqs |-> reqs]

\* Object.fromEntries(entries)[key] for entries of pairs: the last pair wins
RECURSIVE EntryOf(_, _)
EntryOf(entries, key) ==
  IF entries = <<>> THEN <<>>
  ELSE IF entries[Len(entries)][1] = key THEN <<entries[Len(entries)][2]>>
  ELSE EntryOf(SubSeq(entries, 1, Len(entries) - 1), key)

\* variant: no summary is taken to carry a pmcId
FromSummariesNone(summaries) == [p \in {} |-> Undefined]

\* the pmids of the summaries that carry a pmcId, with it
FromSummaries(summaries) ==
  LET has == {i \in 1 .. Len(summaries) : Get(summaries[i], "pmcId") # Undefined}
  IN [p \in {summaries[i].pmid : i \in has} |->
        Get(FindByPmid(summaries, p)[1], "pmcId")]

\* variant: the summaries fetched for the availability are not left in the cache
AvailabilityAfterUnstored(fa, pmids, conv, links) ==
  IF fa.raised THEN
    [raised |-> TRUE, availability |-> [p \in {} |-> <<>>],
     files |-> fa.read, read |-> fa.read, reqs |-> fa.reqs]
  ELSE
    LET resultsFromSummaries == FromSummaries(fa.result)
        cv == getPmcIdFromIdConverter(
                SelectIn(pmids, PMIDs \ DOMAIN resultsFromSummaries), conv)
        pmcIdEntries == [p \in DOMAIN resultsFromSummaries \cup DOMAIN cv.pmc |->
                           IF p \in DOMAIN cv.pmc THEN cv.pmc[p]
                           ELSE resultsFromSummaries[p]]
        ln == getLinksFromId(pmids, links)
    IN [raised |-> ln.raised,
        availability |->
          [p \in {ln.links[i][1] : i \in 1 .. Len(ln.links)} |->
             [pmcId |-> Get(pmcIdEntries, p), links |-> EntryOf(ln.links, p)[1]]],
        files |-> fa.read, read |-> fa.read,
        reqs |-> fa.reqs \o cv.reqs \o ln.reqs]

\* checkFullTextAvailability(pmids) after its await of fetchArticles, whose
\* outcome is fa.  availability is the function pmid -> [pmcId, links] that
\* getFullText makes of the returned array with Object.fromEntries
AvailabilityAfter(fa, pmids, conv, links) ==
  IF fa.raised THEN
    [raised |-> TRUE, availability |-> [p \in {} |-> <<>>],
     files |-> fa.files, read |-> fa.read, reqs |-> fa.reqs]
  ELSE
    LET resultsFromSummaries == FromSummaries(fa.result)
        cv == getPmcIdFromIdConverter(
                SelectIn(pmids, PMIDs \ DOMAIN resultsFromSummaries), conv)
        pmcIdEntries == [p \in DOMAIN resultsFromSummaries \cup DOMAIN cv.pmc |->
                           IF p \in DOMAIN cv.pmc THEN cv.pmc[p]
                           ELSE resultsFromSummaries[p]]
        ln == getLinksFromId(pmids, links)
    IN [raised |-> ln.raised,
        availability |->
          [p \in {ln.links[i][1] : i \in 1 .. Len(ln.links)} |->
             [pmcId |-> Get(pmcIdEntries, p), links |-> EntryOf(ln.links, p)[1]]],
        files |-> fa.files, read |-> fa.read,
        reqs |-> fa.reqs \o cv.reqs \o ln.reqs]

checkFullTextAvailability(files, pmids, t, enabled, writable, env) ==
  IF pmids = <<>> THEN
    [raised |-> FALSE, availability |-> [p \in {} |-> <<>>], files |-> files,
     read |-> files, reqs |-> <<>>]
  ELSE
    AvailabilityAfter(fetchArticles(files, pmids, t, enabled, writable, env.summary),
                      pmids, env.conv, env.links)

(***************************************************************************)
(* getFullText                                                             *)
(***************************************************************************)
\* variant: a result for every value that is not null, the empty string included
RECURSIVE ReadFullTextsNotNull(_, _, _)
ReadFullTextsNotNull(files, pmids, t) ==
  IF pmids = <<>> THEN [found |-> <<>>, files |-> files]
  ELSE LET r == getCachedFullText(files, Head(pmids), t)
           rest == ReadFullTextsNotNull(r.files, Tail(pmids), t)
           hit == IF r.ret = "value"
                  THEN <<[pmid |-> Head(pmids), fullText |-> r.value[1]]>>
                  ELSE <<>>
       IN [found |-> hit \o rest.found, files |-> rest.files]

\* pmids.map(getCachedFullText): { pmid, fullText: cached } for every truthy
\* value (a non-empty string), and the files afterwards
RECURSIVE ReadFullTexts(_, _, _)
ReadFullTexts(files, pmids, t) ==
  IF pmids = <<>> THEN [found |-> <<>>, files |-> files]
  ELSE LET r == getCachedFullText(files, Head(pmids), t)
           rest == ReadFullTexts(r.files, Tail(pmids), t)
           hit == IF r.ret = "value" /\ r.value[1] # ""
                  THEN <<[pmid |-> Head(pmids), fullText |-> r.value[1]]>>
                  ELSE <<>>
       IN [found |-> hit \o rest.found, files |-> rest.files]

FullTextCacheCheck(files, pmids, t, enabled) ==
  IF enabled THEN ReadFullTexts(files, pmids, t)
  ELSE [found |-> <<>>, files |-> files]

\* variant: a key for every uncached pmid that has a pmcId, repeated or not
RECURSIVE GroupKeysPerPmid(_, _, _)
GroupKeysPerPmid(pmids, availability, seen) ==
  IF pmids = <<>> THEN <<>>
  ELSE LET pmcId == IF Head(pmids) \in DOMAIN availability
                    THEN availability[Head(pmids)].pmcId ELSE Undefined
       IN (IF pmcId = Undefined THEN <<>> ELSE <<pmcId>>)
          \o GroupKeysPerPmid(Tail(pmids), availability, seen)

\* the keys of pmcToPmidMap in insertion order: the distinct pmcIds of the
\* uncached pmids, in the order of their first pmid
RECURSIVE GroupKeys(_, _, _)
GroupKeys(pmids, availability, seen) ==
  IF pmids = <<>> THEN <<>>
  ELSE LET pmcId == IF Head(pmids) \in DOMAIN availability
                    THEN availability[Head(pmids)].pmcId ELSE Undefined
       IN IF pmcId = Undefined \/ pmcId \in seen
          THEN GroupKeys(Tail(pmids), availability, seen)
          ELSE <<pmcId>> \o GroupKeys(Tail(pmids), availability, seen \cup {pmcId})

\* variant: every uncached pmid with a full-text source is in every group
RelatedPmidsOfAny(pmids, availability, pmcId) ==
  SelectIn(pmids, {p \in DOMAIN availability : availability[p].pmcId # Undefined})

\* pmcToPmidMap[pmcId]: the uncached pmids of the group, as pushed
RelatedPmids(pmids, availability, pmcId) ==
  SelectIn(pmids, {p \in DOMAIN availability : availability[p].pmcId = pmcId})

\* { pmid, fullText, ...(existingLinks && existingLinks.length > 0 && { links }) }
WithLinks(pmid, fullText, existingLinks) ==
  IF existingLinks # <<>>
  THEN [pmid |-> pmid, fullText |-> fullText, links |-> existingLinks]
  ELSE [pmid |-> pmid, fullText |-> fullText]

\* variant: only the pmids with a full-text source get an entry
InitialResultsOfSources(pmids, availability) ==
  [p \in {q \in Range(pmids) : /\ q \in DOMAIN availability
                                /\ availability[q].pmcId # Undefined} |->
     [pmid |-> p, fullText |-> Null, links |-> availability[p].links]]

\* resultsMap after the forEach over the uncached pmids
InitialResults(pmids, availability) ==
  [p \in Range(pmids) |->
     [pmid |-> p, fullText |-> Null,
      links |-> IF p \in DOMAIN availability THEN availability[p].links ELSE <<>>]]

\* resultsMap[pmid]?.links, with [] for a result that has none
ExistingLinks(entry) == IF "links" \in DOMAIN entry THEN entry.links ELSE <<>>

\* variant: the text of a fetched document is cached even when it is empty
RECURSIVE AssignTextCachedAlways(_, _, _, _, _, _, _)
AssignTextCachedAlways(st, relatedPmids, fullText, t, enabled, writable, i) ==
  IF i > Len(relatedPmids) THEN st
  ELSE LET pmid == relatedPmids[i]
           links == ExistingLinks(st.results[pmid])
           entry == WithLinks(pmid, IF fullText = "" THEN Null ELSE fullText, links)
           files == IF enabled
                    THEN setCachedFullText(st.files, pmid, fullText, t, writable)
                    ELSE st.files
       IN AssignTextCachedAlways([results |-> [st.results EXCEPT ![pmid] = entry],
                                  files |-> files],
                                 relatedPmids, fullText, t, enabled, writable, i + 1)

\* the body of the loop for one relatedPmid of a fetched document: assign, cache
RECURSIVE AssignText(_, _, _, _, _, _, _)
AssignText(st, relatedPmids, fullText, t, enabled, writable, i) ==
  IF i > Len(relatedPmids) THEN st
  ELSE LET pmid == relatedPmids[i]
           links == ExistingLinks(st.results[pmid])
           entry == WithLinks(pmid, IF fullText = "" THEN Null ELSE fullText, links)
           files == IF enabled /\ fullText # ""
                    THEN setCachedFullText(st.files, pmid, fullText, t, writable)
                    ELSE st.files
       IN AssignText([results |-> [st.results EXCEPT ![pmid] = entry],
                      files |-> files],
                     relatedPmids, fullText, t, enabled, writable, i + 1)

\* variant: the result is replaced by one without the links
RECURSIVE AssignNullBare(_, _, _)
AssignNullBare(st, relatedPmids, i) ==
  IF i > Len(relatedPmids) THEN st
  ELSE AssignNullBare([results |-> [st.results EXCEPT ![relatedPmids[i]] =
                                      [pmid |-> relatedPmids[i], fullText |-> Null]],
                       files |-> st.files],
                      relatedPmids, i + 1)

\* relatedPmids.forEach of the two branches without a text
RECURSIVE AssignNull(_, _, _)
AssignNull(st, relatedPmids, i) ==
  IF i > Len(relatedPmids) THEN st
  ELSE LET pmid == relatedPmids[i]
           links == ExistingLinks(st.results[pmid])
       IN AssignNull([results |-> [st.results EXCEPT
                                     ![pmid] = WithLinks(pmid, Null, links)],
                      files |-> st.files],
                     relatedPmids, i + 1)

\* the for loop over Object.entries(pmcToPmidMap): one efetch per pmcId
RECURSIVE FetchGroups(_, _, _, _, _, _, _, _)
FetchGroups(st, keys, pmids, availability, docs, t, enabled, writable) ==
  IF keys = <<>> THEN [results |-> st.results, files |-> st.files, reqs |-> <<>>]
  ELSE LET pmcId == Head(keys)
           relatedPmids == RelatedPmids(pmids, availability, pmcId)
           next == CASE docs[pmcId] = "text" ->
                          AssignText(st, relatedPmids, FullTextOf(pmcId), t,
                                     enabled, writable, 1)
                     [] docs[pmcId] = "empty" ->
                          AssignText(st, relatedPmids, "", t, enabled, writable, 1)
                     [] OTHER -> AssignNull(st, relatedPmids, 1)
           rest == FetchGroups(next, Tail(keys), pmids, availability, docs, t,
                               enabled, writable)
       IN [results |-> rest.results, files |-> rest.files,
           reqs |-> <<Request("efetch-pmc", <<pmcId>>)>> \o rest.reqs]

\* Object.values(resultsMap): integer-like keys come in ascending order
RECURSIVE ValuesOf(_, _)
ValuesOf(results, n) ==
  IF n > MaxPmid THEN <<>>
  ELSE (IF PmidOf[n] \in DOMAIN results THEN <<results[PmidOf[n]]>> ELSE <<>>)
       \o ValuesOf(results, n + 1)

\* getFullText(pmids) after its await of checkFullTextAvailability, whose
\* outcome is av; check is the outcome of the cache check
FullTextAfter(check, av, sumFiles, pmids, t, enabled, writable, docs) ==
  LET cachedResults == check.found
      uncachedPmids == Uncached(pmids, cachedResults)
  IN IF av.raised THEN
       [raised |-> TRUE, result |-> <<>>, sumFiles |-> av.files,
        ftFiles |-> check.files, sumRead |-> av.read,
        ftRead |-> check.files, reqs |-> av.reqs]
     ELSE
       LET fg == FetchGroups(
                   [results |-> InitialResults(uncachedPmids, av.availability),
                    files |-> check.files],
                   GroupKeys(uncachedPmids, av.availability, {}),
                   uncachedPmids, av.availability, docs, t, enabled, writable)
           allResults == cachedResults \o ValuesOf(fg.results, 1)
       IN [raised |-> FALSE, result |-> Reorder(pmids, allResults),
           sumFiles |-> av.files, ftFiles |-> fg.files,
           sumRead |-> av.read, ftRead |-> check.files,
           reqs |-> av.reqs \o fg.reqs]

\* getFullText(pmids) against the answers env = [summary, conv, links, docs]
getFullText(sumFiles, ftFiles, pmids, t, enabled, writable, env) ==
  IF pmids = <<>> THEN
    [raised |-> FALSE, result |-> <<>>, sumFiles |-> sumFiles, ftFiles |-> ftFiles,
     sumRead |-> sumFiles, ftRead |-> ftFiles, reqs |-> <<>>]
  ELSE
    LET check == FullTextCacheCheck(ftFiles, pmids, t, enabled)
        uncachedPmids == Uncached(pmids, check.found)
    IN IF uncachedPmids = <<>> THEN
         [raised |-> FALSE, result |-> check.found, sumFiles |-> sumFiles,
          ftFiles |-> check.files, sumRead |-> sumFiles, ftRead |-> check.files,
          reqs |-> <<>>]
       ELSE
         FullTextAfter(check,
                       checkFullTextAvailability(sumFiles, uncachedPmids, t, enabled,
                                                 writable, env),
                       sumFiles, pmids, t, enabled, writable, env.docs)

(***************************************************************************)
(* The client over its cache directory and the remote service.  A call is  *)
(* one step; the remote service's answers are the step's inputs.           *)
(***************************************************************************)
\* lastCall when no call is being looked at.  Of a call it holds the arguments,
\* the outcome and the outbound requests; the summary answer the service had
\* for it; the time of the call; and the files of the cache directory before
\* the call (sumBefore, ftBefore) and after its cache checks (sumRead, ftRead);
\* of a getFullText, also the answers of the conversion and link services and
\* of the full-text fetches (conv, links, docs) and the availability it
\* resolved for the uncached pmids
NoFiles == [p \in PMIDs |-> NoFile]

NoCall ==
  [op |-> "none", pmids |-> <<>>, raised |-> FALSE, result |-> <<>>,
   reqs |-> <<>>, answer |-> [ok |-> TRUE, records |-> <<>>], at |-> 0,
   sumBefore |-> NoFiles, ftBefore |-> NoFiles,
   sumRead |-> NoFiles, ftRead |-> NoFiles,
   conv |-> <<>>, links |-> <<>>, docs |-> <<>>, availability |-> <<>>]

Inputs == SeqsUpTo(PMIDs, MaxLen)

Failed == [ok |-> FALSE, status |-> 500, records |-> <<>>]

\* the answers the service can give to the summary request for the pmids ids
SummaryAnswers(ids) ==
  IF ids = {} THEN {[ok |-> TRUE, records |-> <<>>]}
  ELSE {Failed} \cup {[ok |-> TRUE, records |-> r] : r \in SummaryResponses(ids)}

ConvAnswers(ids) ==
  IF ids = {} THEN {[ok |-> TRUE, pmc |-> [p \in {} |-> Undefined]]}
  ELSE {[ok |-> FALSE, pmc |-> [p \in ids |-> Undefined]]}
       \cup {[ok |-> TRUE, pmc |-> f] : f \in [ids -> ConvPmcs]}

LinkAnswers(ids) ==
  IF ids = {} THEN {[ok |-> TRUE, urls |-> [p \in {} |-> <<>>]]}
  ELSE {[ok |-> FALSE, urls |-> [p \in ids |-> <<>>]]}
       \cup {[ok |-> TRUE, urls |-> [p \in ids |-> LinkLists(p)]]}

\* the handlers of the server, each with a client of its own
ClientIds == {"fetchSummary", "getFullText"}

\* no handler has a call in flight
NoClients == [c \in ClientIds |-> [pc |-> "idle", pmid |-> "", request |-> 0]]

ThrottleIdle ==
  /\ calls = <<>>
  /\ queue = 0
  /\ clock = 0

Init ==
  /\ cacheEnabled \in BOOLEAN
  /\ diskWritable \in BOOLEAN
  \* without a cache directory nothing is ever written
  /\ cacheEnabled \/ diskWritable
  /\ now = 0
  /\ summaryFiles = NoFiles
  /\ fulltextFiles = NoFiles
  /\ lastCall = NoCall
  /\ nops = 0
  /\ ThrottleIdle
  /\ clients = NoClients

\* api.fetchArticles(pmids)
FetchArticles(pmids) ==
  /\ nops < MaxOps
  /\ \E resp \in SummaryAnswers(SummaryMisses(summaryFiles, pmids, now, cacheEnabled)) :
       LET r == fetchArticles(summaryFiles, pmids, now, cacheEnabled, diskWritable, resp)
       IN /\ summaryFiles' = r.files
          /\ lastCall' = [op |-> "fetchArticles", pmids |-> pmids,
                          raised |-> r.raised, result |-> r.result, reqs |-> r.reqs,
                          answer |-> resp, at |-> now,
                          sumBefore |-> summaryFiles, ftBefore |-> fulltextFiles,
                          sumRead |-> r.read, ftRead |-> fulltextFiles,
                          conv |-> <<>>, links |-> <<>>, docs |-> <<>>,
                          availability |-> <<>>]
  /\ nops' = nops + 1
  /\ UNCHANGED <<cacheEnabled, diskWritable, now, fulltextFiles>>
  /\ UNCHANGED <<throttleVars, clients>>

\* api.getFullText(pmids); the answers are drawn for the requests it makes
GetFullText(pmids) ==
  /\ nops < MaxOps
  /\ LET check == FullTextCacheCheck(fulltextFiles, pmids, now, cacheEnabled)
         uncachedPmids == Uncached(pmids, check.found)
         ids == Range(uncachedPmids)
     IN \E summary \in SummaryAnswers(
                          SummaryMisses(summaryFiles, uncachedPmids, now, cacheEnabled)) :
        LET fa == fetchArticles(summaryFiles, uncachedPmids, now, cacheEnabled,
                                diskWritable, summary)
            asked == IF fa.raised THEN {} ELSE ids \ DOMAIN FromSummaries(fa.result)
        IN \E conv \in ConvAnswers(asked) :
           \E links \in (IF fa.raised THEN LinkAnswers({}) ELSE LinkAnswers(ids)) :
           LET av == AvailabilityAfter(fa, uncachedPmids, conv, links)
               groups == IF av.raised THEN {}
                         ELSE Range(GroupKeys(uncachedPmids, av.availability, {}))
           IN \E docs \in [groups -> DocOutcomes] :
              LET r == IF uncachedPmids = <<>>
                       THEN getFullText(summaryFiles, fulltextFiles, pmids, now,
                                        cacheEnabled, diskWritable,
                                        [summary |-> summary, conv |-> conv,
                                         links |-> links, docs |-> docs])
                       ELSE FullTextAfter(check, av, summaryFiles, pmids, now,
                                          cacheEnabled, diskWritable, docs)
              IN /\ summaryFiles' = r.sumFiles
                 /\ fulltextFiles' = r.ftFiles
                 /\ lastCall' = [op |-> "getFullText", pmids |-> pmids,
                                 raised |-> r.raised, result |-> r.result,
                                 reqs |-> r.reqs, answer |-> summary, at |-> now,
                                 sumBefore |-> summaryFiles,
                                 ftBefore |-> fulltextFiles,
                                 sumRead |-> r.sumRead, ftRead |-> r.ftRead,
                                 conv |-> conv, links |-> links, docs |-> docs,
                                 availability |-> av.availability]
  /\ nops' = nops + 1
  /\ UNCHANGED <<cacheEnabled, diskWritable, now>>
  /\ UNCHANGED <<throttleVars, clients>>

\* the caller takes the result of the call
Return ==
  /\ lastCall.op # "none"
  /\ lastCall' = NoCall
  /\ UNCHANGED <<cacheEnabled, diskWritable, now, summaryFiles, fulltextFiles,
                 nops>>
  /\ UNCHANGED <<throttleVars, clients>>

\* time passes
Tick ==
  /\ now < MaxTicks * TickMs
  /\ now' = now + TickMs
  /\ UNCHANGED <<cacheEnabled, diskWritable, summaryFiles, fulltextFiles,
                 lastCall, nops>>
  /\ UNCHANGED <<throttleVars, clients>>

\* the contents a damaged summary file can have: not JSON, an object without
\* its timestamp, an object without its data
DamagedSummaries(pmid) ==
  { Garbage,
    JsonFile([data |-> JsonStringify(NewArticle([pmid |-> pmid, pmc |-> Undefined]))]),
    JsonFile([timestamp |-> now]) }

\* the contents a damaged full-text file can have: unreadable, no timestamp
\* marker on the first line (or an empty file), nothing after the marker
DamagedFullTexts ==
  { [kind |-> "unreadable"], TextFile(FALSE, 0, ""), TextFile(FALSE, 0, "# old"),
    TextFile(TRUE, now, " ") }

\* something outside the program damages a file of the cache directory
DamageSummary(pmid) ==
  /\ cacheEnabled
  /\ nops < MaxOps
  /\ \E f \in DamagedSummaries(pmid) : summaryFiles' = [summaryFiles EXCEPT ![pmid] = f]
  /\ nops' = nops + 1
  /\ UNCHANGED <<cacheEnabled, diskWritable, now, fulltextFiles, lastCall>>
  /\ UNCHANGED <<throttleVars, clients>>

DamageFullText(pmid) ==
  /\ cacheEnabled
  /\ nops < MaxOps
  /\ \E f \in DamagedFullTexts : fulltextFiles' = [fulltextFiles EXCEPT ![pmid] = f]
  /\ nops' = nops + 1
  /\ UNCHANGED <<cacheEnabled, diskWritable, now, summaryFiles, lastCall>>
  /\ UNCHANGED <<throttleVars, clients>>

\* no call is in progress and the result of the last one has been taken
Idle == lastCall.op = "none"

\* The client used by a caller that makes one call after the other, over a
\* cache directory that something else may damage.
Next ==
  \/ \E pmids \in Inputs : Idle /\ FetchArticles(pmids)
  \/ \E pmids \in Inputs : Idle /\ GetFullText(pmids)
  \/ Return
  \/ Idle /\ nops > 0 /\ Tick
  \/ \E pmid \in PMIDs : Idle /\ DamageSummary(pmid)
  \/ \E pmid \in PMIDs : Idle /\ DamageFullText(pmid)

Spec == Init /\ [][Next]_vars

\* The same identifier asked for again and again, the results kept to compare.
RepeatNext ==
  \/ \E pmid \in PMIDs : FetchArticles(<<pmid>>)
  \/ \E pmid \in PMIDs : GetFullText(<<pmid>>)
  \/ Tick

RepeatSpec == Init /\ [][RepeatNext]_vars

(***************************************************************************)
(* AgingSpec: calls for one identifier over a cache directory that an      *)
(* earlier run of the program may have written to at time 0, with time     *)
(* passing in steps of half the TTL.                                       *)
(***************************************************************************)
HalfTickMs == 500

\* the entries of an earlier run for article "1": its summary, its full text
EarlierSummaries ==
  {NoFiles,
   setCachedSummary(NoFiles, "1", NewArticle([pmid |-> "1", pmc |-> "PMC_A"]), 0, TRUE)}

EarlierFullTexts ==
  {NoFiles, setCachedFullText(NoFiles, "1", FullTextOf("PMC_A"), 0, TRUE)}

AgingInit ==
  /\ cacheEnabled = TRUE
  /\ diskWritable = TRUE
  /\ now = 0
  /\ summaryFiles \in EarlierSummaries
  /\ fulltextFiles \in EarlierFullTexts
  /\ lastCall = NoCall
  /\ nops = 0
  /\ ThrottleIdle
  /\ clients = NoClients

\* half the TTL passes
HalfTick ==
  /\ now < cacheTTL * MsPerSec
  /\ now' = now + HalfTickMs
  /\ UNCHANGED <<cacheEnabled, diskWritable, summaryFiles, fulltextFiles,
                 lastCall, nops>>
  /\ UNCHANGED <<throttleVars, clients>>

AgingNext ==
  \/ \E pmid \in PMIDs : FetchArticles(<<pmid>>)
  \/ \E pmid \in PMIDs : GetFullText(<<pmid>>)
  \/ HalfTick

AgingSpec == AgingInit /\ [][AgingNext]_vars

(***************************************************************************)
(* The search and summary operations against a service that answers with   *)
(* a status code.  Of a call lastCall holds the identifiers given to         *)
(* fetchArticles, the outcome, the requests and the statuses of the answers *)
(* to the requests, in order.                                               *)
(***************************************************************************)
Queries == {"cancer"}

SearchOptionSets ==
  { <<>>, [retMax |-> 1], [dateFrom |-> "2020/01/01"],
    [dateTo |-> "2021/12/31", retStart |-> 1],
    [dateFrom |-> "2020/01/01", dateTo |-> "2021/12/31"], [dateFrom |-> ""] }

SearchAndFetchOptionSets ==
  { <<>>, [maxResults |-> 1], [retMax |-> 1, dateFrom |-> "2020/01/01"] }

\* the answers to a search request of page size retmax: a failure, or a page
\* of at most retmax identifiers with the count of all matches
SearchResponses(retmax) ==
  {[status |-> st, body |-> [ids |-> <<>>, count |-> 0]] :
     st \in {x \in Statuses : ~ResponseOk(x)}}
  \cup {[status |-> st, body |-> [ids |-> ids, count |-> Len(ids) + more]] :
          st \in {x \in Statuses : ResponseOk(x)},
          ids \in {a \in SeqsUpTo(1 .. MaxPmid, MaxLen) : Len(a) <= retmax},
          more \in {0, 1}}

\* the answers to the summary request for the pmids ids, with their status
SummaryResponsesWithStatus(ids) ==
  IF ids = {} THEN {[ok |-> TRUE, status |-> 200, records |-> <<>>]}
  ELSE {[ok |-> ResponseOk(st), status |-> st, records |-> <<>>] :
          st \in {x \in Statuses : ~ResponseOk(x)}}
       \cup {[ok |-> ResponseOk(st), status |-> st, records |-> r] :
               st \in {x \in Statuses : ResponseOk(x)},
               r \in SummaryResponses(ids)}

\* lastCall of a call of this part
HttpCall(op, pmids, r, statuses) ==
  [op |-> op, pmids |-> pmids, raised |-> r.raised, result |-> r.result, reqs |-> r.reqs,
   error |-> Get(r, "error"), statuses |-> SubSeq(statuses, 1, Len(r.reqs))]

\* api.search(query, options)
Search(query, options) ==
  /\ nops < MaxOps
  /\ \E response \in SearchResponses(Opt(options, "retMax", DefaultRetMax)) :
       lastCall' = WithKey(WithKey(HttpCall("search", <<>>,
                                            search(query, options, response),
                                            <<response.status>>),
                                   "query", query),
                           "options", options)
  /\ nops' = nops + 1
  /\ UNCHANGED <<cacheEnabled, diskWritable, now, summaryFiles, fulltextFiles>>
  /\ UNCHANGED <<throttleVars, clients>>

\* api.fetchArticles(pmids), the status of the answer noted
FetchArticlesHttp(pmids) ==
  /\ nops < MaxOps
  /\ \E resp \in SummaryResponsesWithStatus(
                    SummaryMisses(summaryFiles, pmids, now, cacheEnabled)) :
       LET r == fetchArticles(summaryFiles, pmids, now, cacheEnabled, diskWritable,
                              resp)
       IN /\ summaryFiles' = r.files
          /\ lastCall' = HttpCall("fetchArticles", pmids, r, <<resp.status>>)
  /\ nops' = nops + 1
  /\ UNCHANGED <<cacheEnabled, diskWritable, now, fulltextFiles>>
  /\ UNCHANGED <<throttleVars, clients>>

\* api.searchAndFetch(query, options)
SearchAndFetch(query, options) ==
  /\ nops < MaxOps
  /\ \E response \in SearchResponses(Opt(options, "maxResults", DefaultRetMax)) :
       LET idList == IF ResponseOk(response.status)
                     THEN IdListOf(response.body.ids) ELSE <<>>
       IN \E resp \in SummaryResponsesWithStatus(
                         SummaryMisses(summaryFiles, idList, now, cacheEnabled)) :
          LET r == searchAndFetch(summaryFiles, query, options, now, cacheEnabled,
                                  diskWritable, response, resp)
          IN /\ summaryFiles' = r.files
             /\ lastCall' = HttpCall("searchAndFetch", idList, r,
                                     <<response.status, resp.status>>)
  /\ nops' = nops + 1
  /\ UNCHANGED <<cacheEnabled, diskWritable, now, fulltextFiles>>
  /\ UNCHANGED <<throttleVars, clients>>

\* articles.map of the search handler: pmid, title and pubDate of each article
SearchResultItems(articles) ==
  [i \in 1 .. Len(articles) |->
     [pmid |-> articles[i].pmid, title |-> articles[i].title,
      pubDate |-> Get(articles[i], "pubDate")]]

\* searchHandler.search(query, searchOptions), the callback of the tool
\* search_pubmed: pubmedApi.searchAndFetch(query, searchOptions), then the map
SearchHandlerSearch(query, searchOptions) ==
  /\ nops < MaxOps
  /\ \E response \in SearchResponses(Opt(searchOptions, "maxResults", DefaultRetMax)) :
       LET idList == IF ResponseOk(response.status)
                     THEN IdListOf(response.body.ids) ELSE <<>>
       IN \E resp \in SummaryResponsesWithStatus(
                         SummaryMisses(summaryFiles, idList, now, cacheEnabled)) :
          LET r == searchAndFetch(summaryFiles, query, searchOptions, now,
                                  cacheEnabled, diskWritable, response, resp)
          IN /\ summaryFiles' = r.files
             /\ lastCall' =
                  WithKey(HttpCall("searchHandler.search", idList,
                                   [r EXCEPT !.result = SearchResultItems(r.result)],
                                   <<response.status, resp.status>>),
                          "options", searchOptions)
  /\ nops' = nops + 1
  /\ UNCHANGED <<cacheEnabled, diskWritable, now, fulltextFiles>>
  /\ UNCHANGED <<throttleVars, clients>>

HttpNext ==
  \/ \E query \in Queries, options \in SearchOptionSets :
       Idle /\ Search(query, options)
  \/ \E pmids \in Inputs : Idle /\ FetchArticlesHttp(pmids)
  \/ \E query \in Queries, options \in SearchAndFetchOptionSets :
       Idle /\ SearchAndFetch(query, options)
  \/ \E query \in Queries, searchOptions \in SearchOptionSets :
       Idle /\ SearchHandlerSearch(query, searchOptions)
  \/ Return

HttpSpec == Init /\ [][HttpNext]_vars

(***************************************************************************)
(* The two lookups of checkFullTextAvailability applied to long batches.   *)
(* The identifiers are numbers of one length, for which containing is      *)
(* being equal.                                                            *)
(***************************************************************************)
MaxBatchLen == 201
FirstId == 1000

BatchIds == [i \in 1 .. MaxBatchLen |-> ToString(FirstId + i)]

\* the batches: the first n identifiers, for every n
Batches == {SubSeq(BatchIds, 1, n) : n \in 0 .. MaxBatchLen}

\* the answers of the conversion service to a batch: a failure, no source for
\* any identifier, a source for every identifier
BatchConvAnswers(ids) ==
  {[ok |-> FALSE, pmc |-> [p \in ids |-> Undefined]]}
  \cup {[ok |-> TRUE, pmc |-> [p \in ids |-> pmc]] : pmc \in ConvPmcs}

\* lastCall of a lookup
LookupCall(op, pmids, raised, reqs) ==
  [op |-> op, pmids |-> pmids, raised |-> raised, reqs |-> reqs]

\* getPmcIdFromIdConverter(pmids)
GetPmcIdFromIdConverter(pmids) ==
  /\ \E conv \in BatchConvAnswers(Range(pmids)) :
       lastCall' = LookupCall("getPmcIdFromIdConverter", pmids, FALSE,
                              getPmcIdFromIdConverter(pmids, conv).reqs)
  /\ UNCHANGED <<cacheEnabled, diskWritable, now, summaryFiles, fulltextFiles, nops>>
  /\ UNCHANGED <<throttleVars, clients>>

\* getLinksFromId(pmids)
GetLinksFromId(pmids) ==
  /\ \E links \in LinkAnswers(Range(pmids)) :
       LET r == getLinksFromId(pmids, links)
       IN lastCall' = LookupCall("getLinksFromId", pmids, r.raised, r.reqs)
  /\ UNCHANGED <<cacheEnabled, diskWritable, now, summaryFiles, fulltextFiles, nops>>
  /\ UNCHANGED <<throttleVars, clients>>

LookupNext ==
  \/ \E pmids \in Batches : Idle /\ GetPmcIdFromIdConverter(pmids)
  \/ \E pmids \in Batches : Idle /\ GetLinksFromId(pmids)
  \/ Return

LookupInit == Init /\ ~cacheEnabled

LookupSpec == LookupInit /\ [][LookupNext]_vars

(***************************************************************************)
(* The normalization of a summary payload (the loop of fetchArticles over  *)
(* the parsed response).  A parsed value is undefined, a string, a number, *)
(* an object (a function from its keys) or an array.  The XML parser trims *)
(* texts, gives "" for an empty element, a number for a numeric text, an   *)
(* object for an element with attributes or children (its text, if any,    *)
(* under "#text"), and an array for a repeated element.                    *)
(***************************************************************************)
Undef == [kind |-> "undefined"]
Str(s) == [kind |-> "string", text |-> s]
Num(n) == [kind |-> "number", n |-> n]
Obj(fields) == [kind |-> "object", fields |-> fields]
Arr(items) == [kind |-> "array", items |-> items]

\* the truthiness of a value
IsTruthy(v) ==
  CASE v.kind = "undefined" -> FALSE
    [] v.kind = "string" -> v.text # ""
    [] v.kind = "number" -> v.n # 0
    [] OTHER -> TRUE

\* v?.[key]
Prop(v, key) ==
  IF v.kind = "object" /\ key \in DOMAIN v.fields THEN v.fields[key] ELSE Undef

\* v?.a?.b?.c for the keys <<a, b, c>>
RECURSIVE Path(_, _)
Path(v, keys) == IF keys = <<>> THEN v ELSE Path(Prop(v, Head(keys)), Tail(keys))

\* a || b
Or(a, b) == IF IsTruthy(a) THEN a ELSE b

\* String(v), also the conversion of template literals and of join
StringOf(v) ==
  CASE v.kind = "string" -> v.text
    [] v.kind = "number" -> ToString(v.n)
    [] v.kind = "object" -> "[object Object]"
    [] OTHER -> "undefined"

\* v?.['#text'] || v
TextOr(v) == Or(Prop(v, "#text"), v)

\* Array.isArray(v) ? v : [v]
AsArray(v) == IF v.kind = "array" THEN v.items ELSE <<v>>

\* strings.join(sep)
RECURSIVE Join(_, _)
Join(strings, sep) ==
  IF strings = <<>> THEN ""
  ELSE IF Len(strings) = 1 THEN strings[1]
  ELSE strings[1] \o sep \o Join(Tail(strings), sep)

\* variant: the given name comes first
AuthorEntryGivenFirst(author) ==
  LET lastName == Or(TextOr(Prop(author, "LastName")), Str(""))
      foreName == Or(TextOr(Prop(author, "ForeName")), Str(""))
  IN IF ~IsTruthy(lastName) THEN <<>>
     ELSE IF IsTruthy(foreName)
     THEN <<Str(StringOf(foreName) \o " " \o StringOf(lastName))>>
     ELSE <<lastName>>

\* the body of authorsArray.forEach: what one author node pushes
AuthorEntry(author) ==
  LET lastName == Or(TextOr(Prop(author, "LastName")), Str(""))
      foreName == Or(TextOr(Prop(author, "ForeName")), Str(""))
  IN IF ~IsTruthy(lastName) THEN <<>>
     ELSE IF IsTruthy(foreName)
     THEN <<Str(StringOf(lastName) \o ", " \o StringOf(foreName))>>
     ELSE <<lastName>>

RECURSIVE AuthorEntries(_)
AuthorEntries(authorsArray) ==
  IF authorsArray = <<>> THEN <<>>
  ELSE AuthorEntry(Head(authorsArray)) \o AuthorEntries(Tail(authorsArray))

\* authors of newArticle
AuthorsOf(medlineCitation) ==
  LET authorList == Path(medlineCitation, <<"Article", "AuthorList", "Author">>)
  IN IF IsTruthy(authorList) THEN AuthorEntries(AsArray(authorList)) ELSE <<>>

\* the map and filter over the sections of an abstract: the texts kept
RECURSIVE SectionTexts(_)
SectionTexts(sections) ==
  IF sections = <<>> THEN <<>>
  ELSE LET text == StringOf(TextOr(Head(sections)))
       IN (IF text # "" /\ Trim(text) # "" THEN <<text>> ELSE <<>>)
          \o SectionTexts(Tail(sections))

\* abstract of newArticle
AbstractOf(medlineCitation) ==
  LET abstractText == Path(medlineCitation, <<"Article", "Abstract", "AbstractText">>)
  IN IF ~IsTruthy(abstractText) THEN Undef
     ELSE IF abstractText.kind = "array"
     THEN Or(Str(Trim(Join(SectionTexts(abstractText.items), " "))), Undef)
     ELSE LET text == TextOr(abstractText)
          IN IF text.kind = "string" THEN text
             ELSE IF IsTruthy(text) THEN Str(StringOf(text)) ELSE Undef

\* variant: a missing component leaves its place empty
DateOfPlaces(components) ==
  Join([i \in 1 .. Len(components) |->
          IF IsTruthy(components[i]) THEN StringOf(components[i]) ELSE ""], "-")

\* [year, month, day].filter(Boolean).join('-')
DateOf(components) ==
  Join([i \in 1 .. Len(SelectSeq(components, IsTruthy)) |->
          StringOf(SelectSeq(components, IsTruthy)[i])], "-")

\* pubDate of newArticle
PubDateOf(medlineCitation) ==
  LET pubDateObj == Path(medlineCitation,
                         <<"Article", "Journal", "JournalIssue", "PubDate">>)
  IN IF ~IsTruthy(pubDateObj) THEN ""
     ELSE DateOf(<<Or(TextOr(Prop(pubDateObj, "Year")), Str("")),
                   Or(TextOr(Prop(pubDateObj, "Month")), Str("")),
                   Or(TextOr(Prop(pubDateObj, "Day")), Str(""))>>)

\* nodes.find(node => node[attribute] === value)
RECURSIVE FindByAttribute(_, _, _)
FindByAttribute(nodes, attribute, value) ==
  IF nodes = <<>> THEN Undef
  ELSE IF Prop(Head(nodes), attribute) = Str(value) THEN Head(nodes)
  ELSE FindByAttribute(Tail(nodes), attribute, value)

\* doi and pmcId of newArticle: the text of the node of the list with the
\* attribute, as a string
TextOfKind(list, attribute, value) ==
  IF ~IsTruthy(list) THEN Undef
  ELSE LET found == FindByAttribute(AsArray(list), attribute, value)
       IN IF IsTruthy(found) THEN Str(StringOf(TextOr(found))) ELSE Undef

\* newArticle of fetchArticles, field by field
NewArticleOf(article) ==
  LET medlineCitation == Prop(article, "MedlineCitation")
  IN [pmid |-> StringOf(Or(TextOr(Prop(medlineCitation, "PMID")), Str(""))),
      title |-> Or(TextOr(Path(medlineCitation, <<"Article", "ArticleTitle">>)),
                   Str("")),
      authors |-> AuthorsOf(medlineCitation),
      abstract |-> AbstractOf(medlineCitation),
      journal |-> Or(TextOr(Path(medlineCitation, <<"Article", "Journal", "Title">>)),
                     Str("")),
      pubDate |-> PubDateOf(medlineCitation),
      doi |-> TextOfKind(Prop(medlineCitation, "ELocationID"), "@_EIdType", "doi"),
      pmcId |-> TextOfKind(Path(Prop(article, "PubmedData"),
                                <<"ArticleIdList", "ArticleId">>),
                           "@_IdType", "pmc")]

\* the loop over articlesArray: the articles pushed
RECURSIVE ArticlesOf(_)
ArticlesOf(articlesArray) ==
  IF articlesArray = <<>> THEN <<>>
  ELSE (IF IsTruthy(Prop(Head(articlesArray), "MedlineCitation"))
        THEN <<NewArticleOf(Head(articlesArray))>> ELSE <<>>)
       \o ArticlesOf(Tail(articlesArray))

\* fetchedArticles of fetchArticles for the parsed response
FetchedArticles(parsedData) ==
  LET pubmedArticles == Path(parsedData, <<"PubmedArticleSet", "PubmedArticle">>)
  IN ArticlesOf(AsArray(Or(pubmedArticles, Arr(<<>>))))

(***************************************************************************)
(* LinkSpec: getLinksFromId for identifiers of one and of two digits.      *)
(***************************************************************************)
MaxLinked == 3   \* the most identifiers of a call of getLinksFromId

LinkedIds == {"1", "2", "12"}

\* the link service's answers for the ids: a failure, or for every id the
\* link set of the id, with the URL of the id or without a URL
LinkSetAnswers(ids) ==
  {[ok |-> FALSE, urls |-> [p \in ids |-> <<>>]]}
  \cup {[ok |-> TRUE, urls |-> [p \in ids |-> IF p \in linked THEN <<Url(p)>> ELSE <<>>]] :
          linked \in SUBSET ids}

\* getLinksFromId(pmids), with the answer of the link service kept
LinkLookup(pmids) ==
  /\ \E links \in LinkSetAnswers(Range(pmids)) :
       LET r == getLinksFromId(pmids, links)
       IN lastCall' = [op |-> "getLinksFromId", pmids |-> pmids, raised |-> r.raised,
                       reqs |-> r.reqs, urls |-> links.urls, links |-> r.links]
  /\ UNCHANGED <<cacheEnabled, diskWritable, now, summaryFiles, fulltextFiles, nops>>
  /\ UNCHANGED <<throttleVars, clients>>

LinkNext ==
  \/ \E pmids \in SeqsUpTo(LinkedIds, MaxLinked) : Idle /\ LinkLookup(pmids)
  \/ Return

LinkSpec == LookupInit /\ [][LinkNext]_vars

(***************************************************************************)
(* NormalizeSpec: summary payloads, as parsed, are normalized.  A payload  *)
(* is built from its parts: the value under each repeatable field (absent, *)
(* a single node or a list of nodes) and the publication date.             *)
(***************************************************************************)
MaxNodes == 2   \* the longest list of nodes under one repeatable field

\* author nodes: both names, a surname only, a given name only, an empty
\* surname element beside a given name
AuthorNodes ==
  {Obj(("LastName" :> Str("Smith")) @@ ("ForeName" :> Str("John"))),
   Obj("LastName" :> Str("Lee")),
   Obj("ForeName" :> Str("Ann")),
   Obj(("LastName" :> Str("")) @@ ("ForeName" :> Str("Bo")))}

\* abstract sections: an empty element, a text, numeric texts, a labelled
\* text, a labelled element without text
SectionNodes ==
  {Str(""), Str("Aims"), Num(4), Num(0),
   Obj(("#text" :> Str("Results")) @@ ("@_Label" :> Str("RESULTS"))),
   Obj("@_Label" :> Str("METHODS"))}

LocationNodes ==
  {Obj(("#text" :> Str("10.1/x")) @@ ("@_EIdType" :> Str("doi"))),
   Obj(("#text" :> Str("S0001")) @@ ("@_EIdType" :> Str("pii")))}

ArticleIdNodes ==
  {Obj(("#text" :> Str("PMC1")) @@ ("@_IdType" :> Str("pmc"))),
   Obj(("#text" :> Num(1)) @@ ("@_IdType" :> Str("pubmed")))}

\* the values of a repeatable field over the nodes
Shapes(nodes) ==
  {Undef} \cup nodes \cup {Arr(items) : items \in SeqsUpTo(nodes, MaxNodes) \ {<<>>}}

DateComponent(key) ==
  CASE key = "Year" -> Num(2023)
    [] key = "Month" -> Str("Jan")
    [] key = "Day" -> Num(5)
    [] OTHER -> Str("2023 Jan-Feb")

\* the PubDate element: absent, a free-form date, or some of the components
PubDates ==
  {Undef, Obj("MedlineDate" :> DateComponent("MedlineDate"))}
  \cup {Obj([key \in present |-> DateComponent(key)]) :
          present \in (SUBSET {"Year", "Month", "Day"}) \ {{}}}

BaseParts ==
  [Author |-> Obj(("LastName" :> Str("Smith")) @@ ("ForeName" :> Str("John"))),
   AbstractText |-> Str("Aims"),
   ELocationID |-> Obj(("#text" :> Str("10.1/x")) @@ ("@_EIdType" :> Str("doi"))),
   ArticleId |-> Obj(("#text" :> Str("PMC1")) @@ ("@_IdType" :> Str("pmc"))),
   PubDate |-> Obj([key \in {"Year", "Month", "Day"} |-> DateComponent(key)]),
   PubmedArticle |-> "single"]

\* authors vary with the date, and the abstract with the identifiers
PartsSets ==
  {[BaseParts EXCEPT !.Author = author, !.PubDate = date, !.PubmedArticle = shape] :
     author \in Shapes(AuthorNodes), date \in PubDates, shape \in {"single", "list"}}
  \cup
  {[BaseParts EXCEPT !.AbstractText = abstract, !.ELocationID = loc,
                     !.ArticleId = id, !.PubmedArticle = shape] :
     abstract \in Shapes(SectionNodes), loc \in Shapes(LocationNodes),
     id \in Shapes(ArticleIdNodes), shape \in {"single", "list"}}

\* the parsed response with the parts
Payload(parts) ==
  LET article ==
        Obj(("MedlineCitation" :>
               Obj(("PMID" :> Obj(("#text" :> Num(1)) @@ ("@_Version" :> Num(1))))
                   @@ ("Article" :>
                         Obj(("ArticleTitle" :> Str("Title"))
                             @@ ("AuthorList" :> Obj("Author" :> parts.Author))
                             @@ ("Abstract" :> Obj("AbstractText" :> parts.AbstractText))
                             @@ ("Journal" :>
                                   Obj(("Title" :> Str("Journal"))
                                       @@ ("JournalIssue" :>
                                             Obj("PubDate" :> parts.PubDate))))))
                   @@ ("ELocationID" :> parts.ELocationID)))
            @@ ("PubmedData" :>
                  Obj("ArticleIdList" :> Obj("ArticleId" :> parts.ArticleId))))
  IN Obj("PubmedArticleSet" :>
           Obj("PubmedArticle" :>
                 IF parts.PubmedArticle = "list" THEN Arr(<<article>>) ELSE article))

\* the response is parsed and its articles are normalized
Normalize(parts) ==
  /\ lastCall' = [op |-> "normalize", parts |-> parts,
                  result |-> FetchedArticles(Payload(parts))]
  /\ UNCHANGED <<cacheEnabled, diskWritable, now, summaryFiles, fulltextFiles, nops>>
  /\ UNCHANGED <<throttleVars, clients>>

NormalizeNext ==
  \/ \E parts \in PartsSets : Idle /\ Normalize(parts)
  \/ Return

NormalizeSpec == LookupInit /\ [][NormalizeNext]_vars

(***************************************************************************)
(* ConfigSpec: the configuration of the server from the command line and   *)
(* the environment (parseArgs, pubmedOptions) and the defaults of          *)
(* createPubMedAPI.                                                        *)
(***************************************************************************)
MaxArgs == 3   \* the longest command line, in arguments
DefaultCacheTTL == 86400

\* arguments starting with "--", with the rest of the argument (arg.slice(2))
FlagKeys ==
  ("--email" :> "email") @@ ("--api-key" :> "api-key")
  @@ ("--cache-dir" :> "cache-dir") @@ ("--cache-ttl" :> "cache-ttl")

Flags == DOMAIN FlagKeys
ArgValues == {"cli", "3600"}
ArgLists == SeqsUpTo(Flags \cup ArgValues, MaxArgs)

EnvVariable ==
  ("email" :> "PUBMED_EMAIL") @@ ("api-key" :> "PUBMED_API_KEY")
  @@ ("cache-dir" :> "PUBMED_CACHE_DIR") @@ ("cache-ttl" :> "PUBMED_CACHE_TTL")

Environments ==
  [{"PUBMED_EMAIL"} -> {Undefined, "env@example.com"}]
  \X [{"PUBMED_API_KEY"} -> {Undefined, "env-key"}]
  \X [{"PUBMED_CACHE_DIR"} -> {Undefined, "/env/cache"}]
  \X [{"PUBMED_CACHE_TTL"} -> {Undefined, "7200"}]

\* process.env of the four variables
EnvOf(e) == e[1] @@ e[2] @@ e[3] @@ e[4]

NaN == [kind |-> "NaN"]

\* parseInt(string)
ParseInt(string) ==
  CASE string = "3600" -> Num(3600)
    [] string = "7200" -> Num(7200)
    [] OTHER -> NaN

\* variant: the environment goes before the command line
FirstOfEnv(cmdArgs, env, key) ==
  IF Truthy(env[EnvVariable[key]]) THEN env[EnvVariable[key]]
  ELSE Opt(cmdArgs, key, Undefined)

\* the loop of parseArgs from argument i on
RECURSIVE parseArgsFrom(_, _, _)
parseArgsFrom(args, i, parsed) ==
  IF i > Len(args) THEN parsed
  ELSE IF args[i] \in Flags /\ i + 1 <= Len(args)
          /\ Truthy(args[i + 1]) /\ args[i + 1] \notin Flags
  THEN parseArgsFrom(args, i + 2, WithKey(parsed, FlagKeys[args[i]], args[i + 1]))
  ELSE parseArgsFrom(args, i + 1, parsed)

\* parseArgs() for process.argv.slice(2) = args
parseArgs(args) == parseArgsFrom(args, 1, <<>>)

\* cmdArgs[key] || process.env[variable]
FirstOf(cmdArgs, env, key) ==
  IF Truthy(Opt(cmdArgs, key, Undefined)) THEN cmdArgs[key]
  ELSE env[EnvVariable[key]]

\* pubmedOptions, or the exit of the process without an email
pubmedOptions(args, env) ==
  LET cmdArgs == parseArgs(args)
      email == FirstOf(cmdArgs, env, "email")
      apiKey == FirstOf(cmdArgs, env, "api-key")
      cacheDir == FirstOf(cmdArgs, env, "cache-dir")
      cacheTTLText == FirstOf(cmdArgs, env, "cache-ttl")
      withKey == IF Truthy(apiKey) THEN ("apiKey" :> apiKey) ELSE <<>>
      withDir == IF Truthy(cacheDir) THEN ("cacheDir" :> cacheDir) ELSE <<>>
      withTTL == IF Truthy(cacheTTLText) THEN ("cacheTTL" :> ParseInt(cacheTTLText))
                 ELSE <<>>
  IN IF ~Truthy(email) THEN [exit |-> 1]
     ELSE [exit |-> 0,
           options |-> ("email" :> email) @@ withKey @@ withDir @@ withTTL]

\* the settings createPubMedAPI takes from its options
Settings(options) ==
  [email |-> options["email"],
   apiKey |-> Opt(options, "apiKey", Undefined),
   cacheDir |-> Opt(options, "cacheDir", Undefined),
   cacheTTL |-> Opt(options, "cacheTTL", Num(DefaultCacheTTL))]

\* the server starts with the command line and the environment
Configure(args, env) ==
  /\ LET r == pubmedOptions(args, env)
     IN lastCall' = [op |-> "configure", args |-> args, env |-> env, exit |-> r.exit,
                     settings |-> IF r.exit = 0 THEN Settings(r.options) ELSE <<>>]
  /\ UNCHANGED <<cacheEnabled, diskWritable, now, summaryFiles, fulltextFiles, nops>>
  /\ UNCHANGED <<throttleVars, clients>>

ConfigNext ==
  \/ \E args \in ArgLists, e \in Environments : Idle /\ Configure(args, EnvOf(e))
  \/ Return

ConfigSpec == LookupInit /\ [][ConfigNext]_vars

(***************************************************************************)
(* CacheTextSpec: the full-text cache file, character by character.  A     *)
(* text is a sequence of characters; the marker line, which holds no line  *)
(* break, is one element of the file content.                              *)
(***************************************************************************)
MaxChars == 4   \* the longest assembled text, in characters

Chars == {"a", " ", "\t", "\n"}
RawTexts == SeqsUpTo(Chars, MaxChars)

\* the characters String.prototype.trim removes
IsSpace(ch) == ch \in {" ", "\t", "\n"}

RECURSIVE TrimStart(_)
TrimStart(text) ==
  IF text # <<>> /\ IsSpace(Head(text)) THEN TrimStart(Tail(text)) ELSE text

RECURSIVE TrimEnd(_)
TrimEnd(text) ==
  IF text # <<>> /\ IsSpace(text[Len(text)])
  THEN TrimEnd(SubSeq(text, 1, Len(text) - 1)) ELSE text

\* text.trim()
TrimText(text) == TrimEnd(TrimStart(text))

\* text.replace(/[ \t]+/g, ' ')
RECURSIVE CollapseBlanks(_)
CollapseBlanks(text) ==
  IF text = <<>> THEN <<>>
  ELSE IF Head(text) \in {" ", "\t"}
  THEN LET rest == CollapseBlanks(Tail(text))
       IN IF rest # <<>> /\ Head(rest) = " " /\ Len(text) > 1
             /\ text[2] \in {" ", "\t"}
          THEN rest ELSE <<" ">> \o rest
  ELSE <<Head(text)>> \o CollapseBlanks(Tail(text))

\* variant: the assembled text is stored as it is
CleanUpNone(text) == text

\* the clean-up of the assembled text in getFullText
CleanUp(text) == TrimText(CollapseBlanks(text))

\* `<!-- timestamp: ${timestamp} -->`
Marker(timestamp) == "<!-- timestamp: " \o ToString(timestamp) \o " -->"

\* the times of the model
MarkerTimes == {i * TickMs : i \in 0 .. MaxTicks}

\* `<!-- timestamp: ${timestamp} -->\n${fullText}`
FileContent(timestamp, fullText) == <<Marker(timestamp), "\n">> \o fullText

\* content.split('\n')
RECURSIVE SplitLines(_, _)
SplitLines(content, line) ==
  IF content = <<>> THEN <<line>>
  ELSE IF Head(content) = "\n" THEN <<line>> \o SplitLines(Tail(content), <<>>)
  ELSE SplitLines(Tail(content), Append(line, Head(content)))

\* lines.join('\n')
RECURSIVE JoinLines(_)
JoinLines(lines) ==
  IF lines = <<>> THEN <<>>
  ELSE IF Len(lines) = 1 THEN lines[1]
  ELSE lines[1] \o <<"\n">> \o JoinLines(Tail(lines))

\* lines[0].match(/^<!--\s*timestamp:\s*(\d+)\s*-->$/)
TimestampMatch(line) == {t \in MarkerTimes : line = <<Marker(t)>>}

\* getCachedFullText on the content of the file, read at time t
ReadContent(content, t) ==
  LET lines == SplitLines(content, <<>>)
      timestampMatch == TimestampMatch(lines[1])
  IN IF timestampMatch = {} THEN [ret |-> "null", value |-> <<>>]
     ELSE IF isCacheEntryValid(CHOOSE ts \in timestampMatch : TRUE, t)
     THEN [ret |-> "value", value |-> TrimText(JoinLines(Tail(lines)))]
     ELSE [ret |-> "null", value |-> <<>>]

\* getFullText has assembled the text raw: it cleans it up and, when
\* something is left, stores it with setCachedFullText
StoreFullText(raw) ==
  /\ LET fullText == CleanUp(raw)
     IN lastCall' = [op |-> "setCachedFullText", raw |-> raw, fullText |-> fullText,
                     stored |-> fullText # <<>>, at |-> now,
                     content |-> IF fullText # <<>>
                                 THEN FileContent(now, fullText) ELSE <<>>]
  /\ UNCHANGED <<cacheEnabled, diskWritable, now, summaryFiles, fulltextFiles, nops>>
  /\ UNCHANGED <<throttleVars, clients>>

\* getCachedFullText reads the file that was stored
ReadBack ==
  /\ lastCall.op = "setCachedFullText"
  /\ lastCall.stored
  /\ lastCall' = [op |-> "getCachedFullText", fullText |-> lastCall.fullText,
                  at |-> lastCall.at, content |-> lastCall.content,
                  read |-> ReadContent(lastCall.content, now)]
  /\ UNCHANGED <<cacheEnabled, diskWritable, now, summaryFiles, fulltextFiles, nops>>
  /\ UNCHANGED <<throttleVars, clients>>

CacheTextInit == Init /\ cacheEnabled /\ diskWritable

CacheTextNext ==
  \/ \E raw \in RawTexts : Idle /\ StoreFullText(raw)
  \/ ReadBack
  \/ lastCall.op = "setCachedFullText" /\ Tick
  \/ Return

CacheTextSpec == CacheTextInit /\ [][CacheTextNext]_vars

(***************************************************************************)
(* GlobalRateLimiter: the promise chain of execute.  A call of execute is   *)
(* the promise `execution`: it waits for the queue promise it was chained   *)
(* on, then for its timer, then for its task.                               *)
(*   state   waiting | delaying | running | fulfilled | rejected            *)
(*   pred    the call whose follow-up promise this.queue was when execute   *)
(*           was invoked (0: the initial Promise.resolve())                 *)
(*   reason  for a rejected execution, the call whose task failed           *)
(***************************************************************************)
Delays == {DelayWithKey, DelayWithoutKey}

\* the settlement of the promise `execution` of a call
ExecutionState(c) ==
  IF c.state \in {"fulfilled", "rejected"} THEN c.state ELSE "pending"

\* variant: this.queue = execution, a rejection stays in the queue
FollowupBare(settlement) == settlement

\* execution.then(() => { }, () => { }): fulfilled once execution has settled,
\* whichever way
Followup(settlement) ==
  IF settlement = "pending" THEN "pending" ELSE "fulfilled"

\* variant: this.queue is left as it was
QueueAfterStale(q, k) == q

\* this.queue = ... of execute: the queue follows the call just made
QueueAfter(q, k) == k

\* the settlement of the queue promise that follows call j
QueueState(j) ==
  IF j = 0 THEN "fulfilled" ELSE Followup(ExecutionState(calls[j]))

\* variant: the timer fires at once
TimerDeadlineNow(armedAt, delayMs) == armedAt

\* setTimeout(resolve, delayMs): the earliest time the timer fires
TimerDeadline(armedAt, delayMs) == armedAt + delayMs

NotYet == 0 - 1

\* limiter.execute(delayMs, task), from any call site
Submit(delayMs) ==
  /\ Len(calls) < MaxSubmits
  /\ calls' = Append(calls, [delayMs |-> delayMs, pred |-> queue,
                             state |-> "waiting", timer |-> NotYet,
                             startedAt |-> NotYet, settledAt |-> NotYet,
                             reason |-> 0])
  /\ queue' = QueueAfter(queue, Len(calls) + 1)
  /\ UNCHANGED clock
  /\ UNCHANGED <<cacheVars, clients>>

\* the queue promise call k was chained on has settled: fulfilled, the callback
\* runs and arms the timer; rejected, the execution is rejected with the same
\* reason and the callback never runs
Follow(k) ==
  /\ calls[k].state = "waiting"
  /\ QueueState(calls[k].pred) # "pending"
  /\ calls' = [calls EXCEPT ![k] =
       IF QueueState(calls[k].pred) = "fulfilled"
       THEN [@ EXCEPT !.state = "delaying",
                      !.timer = TimerDeadline(clock, calls[k].delayMs)]
       ELSE [@ EXCEPT !.state = "rejected", !.settledAt = clock,
                      !.reason = calls[calls[k].pred].reason]]
  /\ UNCHANGED <<queue, clock>>
  /\ UNCHANGED <<cacheVars, clients>>

\* the timer of call k has fired: return task()
StartTask(k) ==
  /\ calls[k].state = "delaying"
  /\ clock >= calls[k].timer
  /\ calls' = [calls EXCEPT ![k] = [@ EXCEPT !.state = "running",
                                             !.startedAt = clock]]
  /\ UNCHANGED <<queue, clock>>
  /\ UNCHANGED <<cacheVars, clients>>

\* the task of call k settles: the response text, or the error it threw
Settle(k, ok) ==
  /\ calls[k].state = "running"
  /\ calls' = [calls EXCEPT ![k] =
       [@ EXCEPT !.state = IF ok THEN "fulfilled" ELSE "rejected",
                 !.settledAt = clock,
                 !.reason = IF ok THEN 0 ELSE k]]
  /\ UNCHANGED <<queue, clock>>
  /\ UNCHANGED <<cacheVars, clients>>

\* time passes while a timer or a task is pending
Advance(dt) ==
  /\ \E k \in 1 .. Len(calls) : calls[k].state \in {"delaying", "running"}
  /\ clock + dt <= MaxClock
  /\ clock' = clock + dt
  /\ UNCHANGED <<calls, queue>>
  /\ UNCHANGED <<cacheVars, clients>>

ThrottleInit == Init /\ ~cacheEnabled

ThrottleNext ==
  \/ \E d \in Delays : Submit(d)
  \/ \E k \in 1 .. Len(calls) : Follow(k)
  \/ \E k \in 1 .. Len(calls) : StartTask(k)
  \/ \E k \in 1 .. Len(calls), ok \in BOOLEAN : Settle(k, ok)
  \/ \E dt \in Delays : Advance(dt)

ThrottleSpec == ThrottleInit /\ [][ThrottleNext]_vars

(***************************************************************************)
(* LiveSpec: the limiter with its scheduling.  A callback of a settled     *)
(* promise runs, an armed timer fires once its delay has passed, and a     *)
(* task that has started settles; time passes up to the next timer.  Calls *)
(* are made while the delays of all calls fit into the time of the model.  *)
(***************************************************************************)
RECURSIVE DelaysOf(_)
DelaysOf(cs) == IF cs = <<>> THEN 0 ELSE Head(cs).delayMs + DelaysOf(Tail(cs))

\* limiter.execute(delayMs, task), while the model has time for its delay
SubmitInTime(delayMs) ==
  /\ DelaysOf(calls) + delayMs <= MaxClock
  /\ Submit(delayMs)

\* time passes until the timer of call k fires
Elapse(k) ==
  /\ calls[k].state = "delaying"
  /\ clock < calls[k].timer
  /\ Advance(calls[k].timer - clock)

LiveNext ==
  \/ \E d \in Delays : SubmitInTime(d)
  \/ \E k \in 1 .. Len(calls) : Follow(k)
  \/ \E k \in 1 .. Len(calls) : StartTask(k)
  \/ \E k \in 1 .. Len(calls), ok \in BOOLEAN : Settle(k, ok)
  \/ \E k \in 1 .. Len(calls) : Elapse(k)

LiveSpec ==
  /\ ThrottleInit
  /\ [][LiveNext]_vars
  /\ WF_vars(\E k \in 1 .. Len(calls) : Follow(k))
  /\ WF_vars(\E k \in 1 .. Len(calls) : Elapse(k))
  /\ WF_vars(\E k \in 1 .. Len(calls) : StartTask(k))
  /\ WF_vars(\E k \in 1 .. Len(calls), ok \in BOOLEAN : Settle(k, ok))

(***************************************************************************)
(* makeRequest: the requests of clients that await each request before     *)
(* making the next, with or without an API key, through the one limiter.   *)
(***************************************************************************)
MaxRequests == 11
MaxBudgetClock == 1400

KeyedPerSecond == 10
UnkeyedPerSecond == 3

\* the apiKey option of createPubMedAPI: absent, empty, or a key
ApiKeys == {Undefined, "", "KEY"}

\* variant: every client is given the short delay
delayMsShort(apiKey) == DelayWithKey

\* const delayMs = apiKey ? 100 : 334
delayMs(apiKey) == IF Truthy(apiKey) THEN DelayWithKey ELSE DelayWithoutKey

\* makeRequest(url) of a client created with apiKey: limiter.execute(delayMs,
\* task); the caller awaits it, so its earlier requests have settled
MakeRequest(apiKey) ==
  /\ Len(calls) < MaxRequests
  /\ \A k \in 1 .. Len(calls) : calls[k].state \in {"fulfilled", "rejected"}
  /\ calls' = Append(calls, [delayMs |-> delayMs(apiKey), pred |-> queue,
                             state |-> "waiting", timer |-> NotYet,
                             startedAt |-> NotYet, settledAt |-> NotYet,
                             reason |-> 0, keyed |-> Truthy(apiKey)])
  /\ queue' = QueueAfter(queue, Len(calls) + 1)
  /\ UNCHANGED clock
  /\ UNCHANGED <<cacheVars, clients>>

\* time passes while a timer is pending
Wait(dt) ==
  /\ \E k \in 1 .. Len(calls) : calls[k].state = "delaying"
  /\ clock + dt <= MaxBudgetClock
  /\ clock' = clock + dt
  /\ UNCHANGED <<calls, queue>>
  /\ UNCHANGED <<cacheVars, clients>>

BudgetNext ==
  \/ \E apiKey \in ApiKeys : MakeRequest(apiKey)
  \/ \E k \in 1 .. Len(calls) : Follow(k)
  \/ \E k \in 1 .. Len(calls) : StartTask(k)
  \/ \E k \in 1 .. Len(calls) : Settle(k, TRUE)
  \/ \E dt \in Delays : Wait(dt)

BudgetSpec == ThrottleInit /\ [][BudgetNext]_vars

(***************************************************************************)
(* ConcurrentSpec: the fetch-summary handler and the full-text handler     *)
(* each run one call for one article, at once.  Each handler has its own   *)
(* client; the clients share the cache directory and the rate limiter.  A  *)
(* call moves from one await to the next:                                  *)
(*   pc  idle | fulltext | summary | efetch | writeSummary | elink | pmc   *)
(*       | writeFullText | done                                            *)
(* The summary of the article names its full-text source.                  *)
(***************************************************************************)
FetchedRecord(pmid) == [pmid |-> pmid, pmc |-> "PMC_A"]

\* limiter.execute(delayMs, task) by the client c, which then awaits it at pc
Execute(c, pc) ==
  /\ calls' = Append(calls, [delayMs |-> DelayWithKey, pred |-> queue,
                             state |-> "waiting", timer |-> NotYet,
                             startedAt |-> NotYet, settledAt |-> NotYet,
                             reason |-> 0, by |-> c, tool |-> pc])
  /\ queue' = QueueAfter(queue, Len(calls) + 1)
  /\ clients' = [clients EXCEPT ![c] = [@ EXCEPT !.pc = pc,
                                                 !.request = Len(calls) + 1]]

\* the handler c is called for the article pmid
Invoke(c, pmid) ==
  /\ clients[c].pc = "idle"
  /\ clients' = [clients EXCEPT ![c] =
       [@ EXCEPT !.pmid = pmid,
                 !.pc = IF c = "getFullText" THEN "fulltext" ELSE "summary"]]
  /\ UNCHANGED <<cacheEnabled, diskWritable, now, summaryFiles, fulltextFiles,
                 lastCall, nops>>
  /\ UNCHANGED throttleVars

\* getFullText: cache.getCachedFullText has returned
ReadFullText(c) ==
  /\ clients[c].pc = "fulltext"
  /\ LET r == getCachedFullText(fulltextFiles, clients[c].pmid, clock)
     IN /\ fulltextFiles' = r.files
        /\ clients' = [clients EXCEPT ![c].pc =
                         IF r.ret = "value" THEN "done" ELSE "summary"]
  /\ UNCHANGED <<cacheEnabled, diskWritable, now, summaryFiles, lastCall, nops>>
  /\ UNCHANGED throttleVars

\* variant: a miss joins the summary request another client has pending for
\* the same article
ReadSummaryShared(c) ==
  /\ clients[c].pc = "summary"
  /\ LET r == getCachedSummary(summaryFiles, clients[c].pmid, clock)
         pending == {d \in ClientIds : /\ d # c
                                       /\ clients[d].pc = "efetch"
                                       /\ clients[d].pmid = clients[c].pmid}
     IN /\ summaryFiles' = r.files
        /\ IF r.ret # "value" /\ pending # {}
           THEN /\ clients' = [clients EXCEPT ![c] =
                     [@ EXCEPT !.pc = "efetch",
                               !.request = clients[CHOOSE d \in pending : TRUE].request]]
                /\ UNCHANGED <<calls, queue>>
           ELSE IF r.ret # "value" THEN Execute(c, "efetch")
           ELSE IF c = "getFullText" THEN Execute(c, "elink")
           ELSE /\ clients' = [clients EXCEPT ![c].pc = "done"]
                /\ UNCHANGED <<calls, queue>>
  /\ UNCHANGED <<cacheEnabled, diskWritable, now, fulltextFiles, lastCall, nops,
                 clock>>

\* fetchArticles: cache.getCachedSummary has returned; a miss is requested
ReadSummary(c) ==
  /\ clients[c].pc = "summary"
  /\ LET r == getCachedSummary(summaryFiles, clients[c].pmid, clock)
     IN /\ summaryFiles' = r.files
        /\ IF r.ret # "value" THEN Execute(c, "efetch")
           ELSE IF c = "getFullText" THEN Execute(c, "elink")
           ELSE /\ clients' = [clients EXCEPT ![c].pc = "done"]
                /\ UNCHANGED <<calls, queue>>
  /\ UNCHANGED <<cacheEnabled, diskWritable, now, fulltextFiles, lastCall, nops,
                 clock>>

\* the request the client c awaits has settled
Resume(c) ==
  /\ clients[c].pc \in {"efetch", "elink", "pmc"}
  /\ ExecutionState(calls[clients[c].request]) # "pending"
  /\ IF ExecutionState(calls[clients[c].request]) = "rejected"
     THEN \* fetchArticles and getLinksFromId raise, the full-text loop catches
          /\ clients' = [clients EXCEPT ![c].pc = "done"]
          /\ UNCHANGED <<calls, queue>>
     ELSE IF clients[c].pc = "efetch"
     THEN \* cache.setCachedSummary(pmid, newArticle) is called
          /\ clients' = [clients EXCEPT ![c].pc = "writeSummary"]
          /\ UNCHANGED <<calls, queue>>
     ELSE IF clients[c].pc = "elink"
     THEN Execute(c, "pmc")
     ELSE \* cache.setCachedFullText(pmid, fullText) is called
          /\ clients' = [clients EXCEPT ![c].pc = "writeFullText"]
          /\ UNCHANGED <<calls, queue>>
  /\ UNCHANGED <<cacheEnabled, diskWritable, now, summaryFiles, fulltextFiles,
                 lastCall, nops, clock>>

\* the write of the client c has returned
EndWrite(c) ==
  /\ clients[c].pc \in {"writeSummary", "writeFullText"}
  /\ IF clients[c].pc = "writeSummary"
     THEN /\ summaryFiles' =
               setCachedSummary(summaryFiles, clients[c].pmid,
                                NewArticle(FetchedRecord(clients[c].pmid)),
                                clock, diskWritable)
          /\ UNCHANGED fulltextFiles
          /\ IF c = "getFullText" THEN Execute(c, "elink")
             ELSE /\ clients' = [clients EXCEPT ![c].pc = "done"]
                  /\ UNCHANGED <<calls, queue>>
     ELSE /\ fulltextFiles' =
               setCachedFullText(fulltextFiles, clients[c].pmid,
                                 FullTextOf("PMC_A"), clock, diskWritable)
          /\ UNCHANGED summaryFiles
          /\ clients' = [clients EXCEPT ![c].pc = "done"]
          /\ UNCHANGED <<calls, queue>>
  /\ UNCHANGED <<cacheEnabled, diskWritable, now, lastCall, nops, clock>>

\* a timer of the limiter is armed and has not fired
TimerPending ==
  \E k \in 1 .. Len(calls) : calls[k].state = "delaying" /\ clock < calls[k].timer

ConcurrentInit == Init /\ cacheEnabled

ConcurrentNext ==
  \/ \E c \in ClientIds, pmid \in PMIDs : Invoke(c, pmid)
  \/ \E c \in ClientIds : ReadFullText(c)
  \/ \E c \in ClientIds : ReadSummary(c)
  \/ \E c \in ClientIds : Resume(c)
  \/ \E c \in ClientIds : EndWrite(c)
  \/ \E k \in 1 .. Len(calls) : Follow(k)
  \/ \E k \in 1 .. Len(calls) : StartTask(k)
  \/ \E k \in 1 .. Len(calls), ok \in BOOLEAN : Settle(k, ok)
  \/ TimerPending /\ Advance(DelayWithKey)

ConcurrentSpec == ConcurrentInit /\ [][ConcurrentNext]_vars

(***************************************************************************)
(* Properties.  What they say of a call is read from lastCall.             *)
(***************************************************************************)
TTLms == cacheTTL * MsPerSec

FreshAt(timestamp, t) == t - timestamp < TTLms

\* the pmids of the results of a call, in their order
ResultPmids(c) == [i \in 1 .. Len(c.result) |-> c.result[i].pmid]

\* the identifiers the requests of a call to the given tools list
RequestedBy(c, tools) ==
  UNION {Range(c.reqs[i].ids) : i \in {j \in 1 .. Len(c.reqs) : c.reqs[j].tool \in tools}}

PmidTools == {"efetch", "idconv", "elink"}

\* a summary file as setCachedSummary writes it
SummaryEntry(f) ==
  /\ f.kind = "json"
  /\ "timestamp" \in DOMAIN f.obj
  /\ "data" \in DOMAIN f.obj

\* a full-text file as setCachedFullText writes it
FullTextEntry(f) ==
  /\ f.kind = "text"
  /\ f.marker
  /\ f.body \notin {"", " "}

\* the call served p from the full-text cache
FullTextHit(c, p) ==
  /\ cacheEnabled
  /\ FullTextEntry(c.ftBefore[p])
  /\ FreshAt(c.ftBefore[p].ts, c.at)

\* the call read the summary file, the full-text file of p
SummaryWasRead(c, p) ==
  /\ cacheEnabled
  /\ p \in Range(c.pmids)
  /\ \/ c.op = "fetchArticles"
     \/ c.op = "getFullText" /\ ~FullTextHit(c, p)

FullTextWasRead(c, p) ==
  /\ cacheEnabled
  /\ p \in Range(c.pmids)
  /\ c.op = "getFullText"

\* C1: a getFullText call that returns gives a sequence as long as its input
\* whose i-th result carries the i-th input identifier, duplicates included,
\* whichever identifiers were cache hits, misses, with or without a full text.
C1_FullTextOrderPreserved ==
  (lastCall.op = "getFullText" /\ ~lastCall.raised)
    => ResultPmids(lastCall) = lastCall.pmids

\* a batch <<"2", "1">> where "2" came from the cache with its text and "1"
\* was looked up remotely and has no full text
C1_MixedBatch ==
  /\ lastCall.op = "getFullText"
  /\ ~lastCall.raised
  /\ lastCall.pmids = <<"2", "1">>
  /\ FullTextHit(lastCall, "2")
  /\ "1" \in RequestedBy(lastCall, {"elink"})
  /\ Len(lastCall.result) = 2
  /\ lastCall.result[1].fullText # Null
  /\ lastCall.result[2].fullText = Null

\* C2: when its summary request does not fail, fetchArticles does not raise and
\* returns, in input order, one record for every input identifier that the
\* cache holds (fresh) or the service's answer contains; the other identifiers
\* are left out.
C2_ArticlesInInputOrder ==
  lastCall.op = "fetchArticles" =>
    LET hits == {p \in Range(lastCall.pmids) :
                   /\ cacheEnabled
                   /\ SummaryEntry(lastCall.sumBefore[p])
                   /\ FreshAt(lastCall.sumBefore[p].obj.timestamp, lastCall.at)}
        asked == Range(lastCall.pmids) \ hits
        returned == {lastCall.answer.records[i].pmid :
                       i \in 1 .. Len(lastCall.answer.records)}
    IN (asked = {} \/ lastCall.answer.ok) =>
         /\ ~lastCall.raised
         /\ ResultPmids(lastCall)
              = SelectIn(lastCall.pmids,
                         hits \cup (IF asked = {} THEN {} ELSE returned))

\* <<"2", "1">> where "1" was a cache hit and "2" was fetched: the combined
\* array is cached-first, the result is in input order
C2_MixedHitAndFetched ==
  /\ lastCall.op = "fetchArticles"
  /\ lastCall.pmids = <<"2", "1">>
  /\ lastCall.reqs = <<Request("efetch", <<"2">>)>>
  /\ ~lastCall.raised
  /\ Len(lastCall.result) = 2

\* two Articles with the same fields (a missing field is undefined)
SameArticle(a, b) ==
  \A key \in {"pmid", "title", "pmcId"} : Get(a, key) = Get(b, key)

\* a step that makes a call
CallStep == nops' = nops + 1 /\ lastCall'.at = now

\* C3: with a cache directory that can be written, when fetchArticles([X])
\* went to the service and returned a record, the next call fetchArticles([X])
\* within the TTL makes no request and returns one Article equal to the
\* first; the two calls made one request in total.
C3_Step ==
  ( /\ cacheEnabled /\ diskWritable
    /\ lastCall.op = "fetchArticles"
    /\ Len(lastCall.pmids) = 1
    /\ ~lastCall.raised
    /\ lastCall.reqs # <<>>
    /\ Len(lastCall.result) = 1
    /\ CallStep
    /\ lastCall'.op = "fetchArticles"
    /\ lastCall'.pmids = lastCall.pmids
    /\ FreshAt(lastCall.at, now) )
  => /\ Len(lastCall.reqs) = 1
     /\ lastCall'.reqs = <<>>
     /\ ~lastCall'.raised
     /\ Len(lastCall'.result) = 1
     /\ SameArticle(lastCall'.result[1], lastCall.result[1])

C3_SummaryCacheIdempotent == [][C3_Step]_vars

\* a second fetchArticles([X]) answered from the entry written at time 0
C3_SecondCallServed ==
  /\ nops = 2
  /\ lastCall.op = "fetchArticles"
  /\ Len(lastCall.pmids) = 1
  /\ lastCall.reqs = <<>>
  /\ Len(lastCall.result) = 1
  /\ SummaryEntry(lastCall.sumBefore[lastCall.pmids[1]])
  /\ lastCall.sumBefore[lastCall.pmids[1]].obj.timestamp = 0

\* result.links, an absent field read as no reference URL
LinksOf(r) == IF "links" \in DOMAIN r THEN r.links ELSE <<>>

\* C4 (as stated): with a cache directory that can be written, when
\* getFullText([X]) resolved a full text for X, the next call getFullText([X])
\* within the TTL makes no request and returns a result with the same
\* identifier, full text and reference URLs.
C4_Step ==
  ( /\ cacheEnabled /\ diskWritable
    /\ lastCall.op = "getFullText"
    /\ Len(lastCall.pmids) = 1
    /\ ~lastCall.raised
    /\ Len(lastCall.result) = 1
    /\ lastCall.result[1].fullText # Null
    /\ CallStep
    /\ lastCall'.op = "getFullText"
    /\ lastCall'.pmids = lastCall.pmids
    /\ FreshAt(lastCall.at, now) )
  => /\ lastCall'.reqs = <<>>
     /\ ~lastCall'.raised
     /\ Len(lastCall'.result) = 1
     /\ lastCall'.result[1].pmid = lastCall.result[1].pmid
     /\ lastCall'.result[1].fullText = lastCall.result[1].fullText
     /\ LinksOf(lastCall'.result[1]) = LinksOf(lastCall.result[1])

C4_FullTextCacheIdempotent == [][C4_Step]_vars

\* the positions of p in the results of a call
PositionsOf(c, p) == {i \in 1 .. Len(c.result) : c.result[i].pmid = p}

\* C5: an entry written at time T is served, with no request for its
\* identifier, by a call at a time t with t - T < TTL; with t - T >= TTL the
\* identifier is asked for again and, when the call obtains the record (the
\* text) and the directory can be written, the stored entry is replaced by
\* one with timestamp t.
C5_TtlExpiry ==
  \A p \in Range(lastCall.pmids) :
    /\ ( /\ cacheEnabled
         /\ lastCall.op = "fetchArticles"
         /\ SummaryEntry(lastCall.sumBefore[p]) )
       => IF FreshAt(lastCall.sumBefore[p].obj.timestamp, lastCall.at)
          THEN /\ p \notin RequestedBy(lastCall, PmidTools)
               /\ ~lastCall.raised =>
                    \E i \in PositionsOf(lastCall, p) :
                      lastCall.result[i] = lastCall.sumBefore[p].obj.data
          ELSE /\ p \in RequestedBy(lastCall, {"efetch"})
               /\ (~lastCall.raised /\ diskWritable /\ PositionsOf(lastCall, p) # {})
                    => /\ SummaryEntry(summaryFiles[p])
                       /\ summaryFiles[p].obj.timestamp = lastCall.at
    /\ ( /\ cacheEnabled
         /\ lastCall.op = "getFullText"
         /\ FullTextEntry(lastCall.ftBefore[p]) )
       => IF FreshAt(lastCall.ftBefore[p].ts, lastCall.at)
          THEN /\ p \notin RequestedBy(lastCall, PmidTools)
               /\ ~lastCall.raised =>
                    \A i \in PositionsOf(lastCall, p) :
                      lastCall.result[i].fullText = lastCall.ftBefore[p].body
          ELSE /\ p \in RequestedBy(lastCall, PmidTools)
               /\ ( /\ ~lastCall.raised /\ diskWritable
                    /\ \E i \in PositionsOf(lastCall, p) :
                         lastCall.result[i].fullText # Null )
                    => /\ FullTextEntry(fulltextFiles[p])
                       /\ fulltextFiles[p].ts = lastCall.at

\* a fetchArticles call that found an entry as old as the TTL, asked the
\* service again and stored the record anew
C5_RefetchedAfterExpiry ==
  /\ lastCall.op = "fetchArticles"
  /\ \E p \in Range(lastCall.pmids) :
       /\ SummaryEntry(lastCall.sumBefore[p])
       /\ lastCall.at - lastCall.sumBefore[p].obj.timestamp = TTLms
       /\ p \in RequestedBy(lastCall, {"efetch"})
       /\ SummaryEntry(summaryFiles[p])
       /\ summaryFiles[p].obj.timestamp = lastCall.at

BadSummary(f) == f.kind = "garbage" \/ (f.kind = "json" /\ ~SummaryEntry(f))

\* a full-text file that is not an entry: unreadable, or without the marker
BadFullText(f) == f.kind = "unreadable" \/ (f.kind = "text" /\ ~f.marker)

\* C7 (as stated): when a call reads a summary or full-text file that is
\* unreadable or malformed, the read reports it absent (the identifier is
\* asked for remotely) and the file is deleted.
C7_CorruptEntriesDeleted ==
  \A p \in PMIDs :
    /\ (SummaryWasRead(lastCall, p) /\ BadSummary(lastCall.sumBefore[p]))
       => /\ p \in RequestedBy(lastCall, {"efetch"})
          /\ lastCall.sumRead[p] = NoFile
    /\ (FullTextWasRead(lastCall, p) /\ BadFullText(lastCall.ftBefore[p]))
       => /\ p \in RequestedBy(lastCall, PmidTools)
          /\ lastCall.ftRead[p] = NoFile

Started(c) == c.startedAt # NotYet
Settled(c) == c.state \in {"fulfilled", "rejected"}

\* C8: the task of a call starts only after the previously submitted call has
\* settled and the call's own delay has passed since then; at most one task
\* is running; consecutive starts are at least that delay apart.
C8_ThrottleSpacing ==
  /\ Cardinality({k \in 1 .. Len(calls) : calls[k].state = "running"}) <= 1
  /\ \A k \in 2 .. Len(calls) :
       Started(calls[k]) =>
         /\ Settled(calls[k - 1])
         /\ calls[k].startedAt >= calls[k - 1].settledAt + calls[k].delayMs
         /\ calls[k].startedAt >= calls[k - 1].startedAt + calls[k].delayMs

\* three calls with different delays, the third started
C8_ThreeSpaced ==
  /\ Len(calls) = 3
  /\ calls[1].delayMs # calls[2].delayMs
  /\ calls[2].pred = 1
  /\ Started(calls[2])
  /\ Started(calls[3])

\* C9: tasks start in the order in which execute was invoked.
C9_ThrottleFifo ==
  \A j, k \in 1 .. Len(calls) :
    (j < k /\ Started(calls[k])) =>
      /\ Started(calls[j])
      /\ calls[j].startedAt < calls[k].startedAt

\* a call with the long delay invoked before one with the short delay, both
\* started
C9_LongBeforeShort ==
  /\ Len(calls) >= 2
  /\ calls[1].delayMs = DelayWithoutKey
  /\ calls[2].delayMs = DelayWithKey
  /\ Started(calls[2])

\* C10: a call is rejected only by the failure of its own task, every call
\* that has settled has run its task, the queue promise is never rejected,
\* and a call whose predecessor has settled is not held back by it.
C10_ThrottleFailureIsolated ==
  /\ QueueState(queue) # "rejected"
  /\ \A k \in 1 .. Len(calls) :
       /\ calls[k].state = "rejected" => calls[k].reason = k
       /\ Settled(calls[k]) => Started(calls[k])
       /\ (calls[k].state = "waiting" /\ calls[k].pred # 0
           /\ Settled(calls[calls[k].pred]))
            => QueueState(calls[k].pred) = "fulfilled"

\* a failed task between two tasks that succeeded
C10_FailureBetweenSuccesses ==
  /\ Len(calls) = 3
  /\ calls[1].state = "fulfilled"
  /\ calls[2].state = "rejected"
  /\ calls[3].state = "fulfilled"

\* the requests of clients with (keyed) or without an API key that started
\* in the half-open interval of one second beginning at time from
StartsWithin(keyed, from) ==
  { k \in 1 .. Len(calls) :
      /\ "keyed" \in DOMAIN calls[k]
      /\ calls[k].keyed = keyed
      /\ calls[k].startedAt # NotYet
      /\ from <= calls[k].startedAt
      /\ calls[k].startedAt < from + MsPerSec }

\* C11: a request is delayed by 100 ms when its client has an API key and by
\* 334 ms otherwise, and in any half-open interval of 1000 ms at most 10
\* requests of keyed clients and at most 3 requests of clients without a key
\* start.  An interval holding the most starts can be moved to begin at the
\* first start it holds, so the intervals beginning at a start are examined.
C11_RateBudget ==
  \A k \in 1 .. Len(calls) :
    "keyed" \in DOMAIN calls[k] =>
      /\ calls[k].delayMs = IF calls[k].keyed THEN 100 ELSE 334
      /\ calls[k].startedAt # NotYet =>
           /\ Cardinality(StartsWithin(TRUE, calls[k].startedAt)) <= KeyedPerSecond
           /\ Cardinality(StartsWithin(FALSE, calls[k].startedAt)) <= UnkeyedPerSecond

\* eleven requests of a keyed client at the shortest spacing: the eleventh
\* starts exactly one second after the first
C11_ElevenKeyed ==
  /\ Len(calls) = 11
  /\ \A k \in 1 .. 11 : calls[k].keyed /\ calls[k].startedAt # NotYet
  /\ calls[11].startedAt - calls[1].startedAt = MsPerSec

\* the input identifiers of a getFullText call that its cache check missed
UncachedOf(c) == {p \in Range(c.pmids) : ~FullTextHit(c, p)}

\* the full-text source the call resolved for p, Undefined when none
SourceOf(c, p) ==
  IF p \in DOMAIN c.availability THEN c.availability[p].pmcId ELSE Undefined

\* the full-text sources resolved among the uncached identifiers
SourcesOf(c) == {SourceOf(c, p) : p \in UncachedOf(c)} \ {Undefined}

\* the positions of the full-text fetches of a call
FullTextFetches(c) == {i \in 1 .. Len(c.reqs) : c.reqs[i].tool = "efetch-pmc"}

\* C12: in a getFullText call that returns, exactly one full-text fetch is
\* issued for every distinct source resolved among the uncached identifiers,
\* none for anything else, and the results of all uncached identifiers that
\* resolved to one source carry the same fullText.
C12_GroupSharing ==
  (lastCall.op = "getFullText" /\ ~lastCall.raised) =>
    /\ \A s \in SourcesOf(lastCall) :
         Cardinality({i \in FullTextFetches(lastCall) :
                        lastCall.reqs[i].ids = <<s>>}) = 1
    /\ \A i \in FullTextFetches(lastCall) :
         \E s \in SourcesOf(lastCall) : lastCall.reqs[i].ids = <<s>>
    /\ \A i, j \in 1 .. Len(lastCall.result) :
         LET p == lastCall.result[i].pmid
             q == lastCall.result[j].pmid
         IN (/\ {p, q} \subseteq UncachedOf(lastCall)
             /\ SourceOf(lastCall, p) # Undefined
             /\ SourceOf(lastCall, p) = SourceOf(lastCall, q))
            => lastCall.result[i].fullText = lastCall.result[j].fullText

\* two different identifiers of one source: one fetch, the same text for both
C12_TwoOfOneSource ==
  /\ lastCall.op = "getFullText"
  /\ ~lastCall.raised
  /\ lastCall.pmids = <<"1", "2">>
  /\ UncachedOf(lastCall) = {"1", "2"}
  /\ SourceOf(lastCall, "1") = "PMC_A"
  /\ SourceOf(lastCall, "2") = "PMC_A"
  /\ Cardinality(FullTextFetches(lastCall)) = 1
  /\ lastCall.result[1].fullText = FullTextOf("PMC_A")
  /\ lastCall.result[2].fullText = FullTextOf("PMC_A")

\* the sources of a call whose full-text fetch or parse failed
FailedGroups(c) == {g \in DOMAIN c.docs : c.docs[g] = "error"}

\* the call made again from the same cache directory at the same time with
\* the same answers, except that the document of source g has text
HadNotFailed(c, g) ==
  getFullText(c.sumBefore, c.ftBefore, c.pmids, c.at, cacheEnabled, diskWritable,
              [summary |-> c.answer, conv |-> c.conv, links |-> c.links,
               docs |-> [c.docs EXCEPT ![g] = "text"]])

\* C13: when the full-text fetch or parse of a source group fails, getFullText
\* does not raise; every member of the group has fullText null and the
\* reference URLs the link lookup collected for it; and the results of all
\* other identifiers are those of the same call in which that fetch succeeds.
C13_GroupFailureContained ==
  (lastCall.op = "getFullText" /\ FailedGroups(lastCall) # {}) =>
    /\ ~lastCall.raised
    /\ Len(lastCall.result) = Len(lastCall.pmids)
    /\ \A g \in FailedGroups(lastCall) :
         LET other == HadNotFailed(lastCall, g)
         IN /\ ~other.raised
            /\ Len(other.result) = Len(lastCall.result)
            /\ \A i \in 1 .. Len(lastCall.result) :
                 LET r == lastCall.result[i]
                 IN IF SourceOf(lastCall, r.pmid) = g /\ r.pmid \in UncachedOf(lastCall)
                    THEN /\ r.fullText = Null
                         /\ LinksOf(r) = lastCall.availability[r.pmid].links
                         /\ other.result[i].fullText # Null
                    ELSE r = other.result[i]

\* two groups in one batch: the fetch for the source of "1" fails and its URL
\* is kept, the source of "2" is fetched and its text returned
C13_OneGroupFails ==
  /\ lastCall.op = "getFullText"
  /\ lastCall.pmids = <<"1", "2">>
  /\ UncachedOf(lastCall) = {"1", "2"}
  /\ SourceOf(lastCall, "1") = "PMC_A"
  /\ SourceOf(lastCall, "2") = "PMC_B"
  /\ lastCall.docs["PMC_A"] = "error"
  /\ lastCall.docs["PMC_B"] = "text"
  /\ lastCall.result[1].fullText = Null
  /\ LinksOf(lastCall.result[1]) = <<Url("1")>>
  /\ lastCall.result[2].fullText = FullTextOf("PMC_B")

\* C14 (as stated): whatever fails while getFullText resolves availability
\* (the summary lookup, the conversion call, the link lookup) or fetches a
\* full text, the call does not raise: it returns one result for every input
\* identifier.
C14_FullTextNeverRaises ==
  lastCall.op = "getFullText" =>
    /\ ~lastCall.raised
    /\ Len(lastCall.result) = Len(lastCall.pmids)

\* C15: when the service answers the search request or the summary request
\* of a search, fetchArticles or searchAndFetch call with a non-success status,
\* the call raises an error whose message carries that status code, makes no
\* further request and returns nothing, neither the identifiers found nor the
\* articles the cache held.
C15_HardFailure ==
  (/\ lastCall.op \in {"search", "fetchArticles", "searchAndFetch"}
   /\ \E i \in 1 .. Len(lastCall.statuses) :
        lastCall.statuses[i] \notin 200 .. 299) =>
    LET n == Len(lastCall.statuses)
    IN /\ lastCall.raised
       /\ lastCall.result = <<>>
       /\ lastCall.statuses[n] \notin 200 .. 299
       /\ lastCall.error = "HTTP error! status: " \o ToString(lastCall.statuses[n])

\* searchAndFetch finds "1" and "2", the cache holds the summary of one of
\* them, and the summary request for the other is answered with 404
C15_FetchFailsAfterSearch ==
  /\ lastCall.op = "searchAndFetch"
  /\ lastCall.raised
  /\ lastCall.pmids = <<"1", "2">>
  /\ lastCall.statuses = <<200, 404>>
  /\ lastCall.error = "HTTP error! status: 404"
  /\ lastCall.reqs[2] = Request("efetch", <<"2">>)
  /\ SummaryEntry(summaryFiles["1"])

\* C16: without a cache directory no file is ever written, and every
\* fetchArticles or getFullText call with a non-empty input asks the service
\* for the summary of every input identifier, whatever was fetched before.
C16_PassThrough ==
  ~cacheEnabled =>
    /\ summaryFiles = NoFiles
    /\ fulltextFiles = NoFiles
    /\ (lastCall.op \in {"fetchArticles", "getFullText"} /\ lastCall.pmids # <<>>) =>
         /\ lastCall.reqs # <<>>
         /\ Range(lastCall.pmids) \subseteq RequestedBy(lastCall, {"efetch"})

\* the second call of a client without a cache directory: a full text is
\* resolved again through the service
C16_SecondCallAsksAgain ==
  /\ ~cacheEnabled
  /\ nops = 2
  /\ lastCall.op = "getFullText"
  /\ lastCall.pmids = <<"1">>
  /\ ~lastCall.raised
  /\ lastCall.result[1].fullText # Null
  /\ Len(lastCall.reqs) = 3

\* the call made from the same cache directory at the same time with the
\* same answers, over a cache directory whose writes succeed
HadWritten(c) ==
  IF c.op = "fetchArticles"
  THEN LET r == fetchArticles(c.sumBefore, c.pmids, c.at, cacheEnabled, TRUE, c.answer)
       IN [raised |-> r.raised, result |-> r.result, sumFiles |-> r.files,
           ftFiles |-> c.ftBefore]
  ELSE LET r == getFullText(c.sumBefore, c.ftBefore, c.pmids, c.at, cacheEnabled, TRUE,
                            [summary |-> c.answer, conv |-> c.conv,
                             links |-> c.links, docs |-> c.docs])
       IN [raised |-> r.raised, result |-> r.result, sumFiles |-> r.sumFiles,
           ftFiles |-> r.ftFiles]

\* C17: over a cache directory that cannot be written, fetchArticles and
\* getFullText raise exactly when they would with a writable one and return
\* exactly the value they would return with a writable one; nothing is written.
C17_WriteFailureSwallowed ==
  (/\ cacheEnabled
   /\ ~diskWritable
   /\ lastCall.op \in {"fetchArticles", "getFullText"}) =>
    /\ lastCall.raised = HadWritten(lastCall).raised
    /\ lastCall.result = HadWritten(lastCall).result

\* a getFullText whose summary write and full-text write both fail and which
\* returns the text all the same
C17_BothWritesFail ==
  /\ cacheEnabled
  /\ ~diskWritable
  /\ lastCall.op = "getFullText"
  /\ ~lastCall.raised
  /\ lastCall.pmids = <<"1">>
  /\ lastCall.result[1].fullText # Null
  /\ summaryFiles["1"] = NoFile
  /\ fulltextFiles["1"] = NoFile
  /\ SummaryEntry(HadWritten(lastCall).sumFiles["1"])
  /\ FullTextEntry(HadWritten(lastCall).ftFiles["1"])

\* the call found a valid summary entry for p
SummaryHit(c, p) ==
  /\ cacheEnabled
  /\ SummaryEntry(c.sumBefore[p])
  /\ FreshAt(c.sumBefore[p].obj.timestamp, c.at)

\* the call found a valid cache entry of its kind for p
CacheHit(c, p) ==
  IF c.op = "fetchArticles" THEN SummaryHit(c, p) ELSE FullTextHit(c, p)

\* C18: in a fetchArticles or getFullText call, an input identifier with a
\* valid cache entry of the call's kind is in no outbound request of the call,
\* and when every input identifier has one the call makes no request at all.
C18_HitsStayLocal ==
  lastCall.op \in {"fetchArticles", "getFullText"} =>
    /\ \A p \in Range(lastCall.pmids) :
         CacheHit(lastCall, p) => p \notin RequestedBy(lastCall, PmidTools)
    /\ (\A p \in Range(lastCall.pmids) : CacheHit(lastCall, p)) =>
         /\ lastCall.reqs = <<>>
         /\ ~lastCall.raised

\* a getFullText of two identifiers of which one is a hit: the requests name
\* the other one only
C18_HitBesideMiss ==
  /\ lastCall.op = "getFullText"
  /\ lastCall.pmids = <<"1", "2">>
  /\ CacheHit(lastCall, "1")
  /\ ~CacheHit(lastCall, "2")
  /\ lastCall.reqs # <<>>
  /\ RequestedBy(lastCall, PmidTools) = {"2"}

\* the full-text source id carried by the summary record the call had for p:
\* the cached article's when the summary cache served p, else that of the
\* record for p in the service's answer; Undefined when there is none
SummarySourceOf(c, p) ==
  IF SummaryHit(c, p) THEN Get(c.sumBefore[p].obj.data, "pmcId")
  ELSE LET at == {i \in 1 .. Len(c.answer.records) : c.answer.records[i].pmid = p}
       IN IF c.answer.ok /\ at # {}
          THEN c.answer.records[CHOOSE i \in at : TRUE].pmc
          ELSE Undefined

\* the full-text source id the conversion service answered for p
ConvSourceOf(c, p) ==
  IF c.conv.ok /\ p \in DOMAIN c.conv.pmc THEN c.conv.pmc[p] ELSE Undefined

RECURSIVE RequestedIds(_)
RequestedIds(reqs) ==
  IF reqs = <<>> THEN <<>> ELSE Head(reqs).ids \o RequestedIds(Tail(reqs))

\* C20 (as stated): every identifier-conversion request and every
\* link-enumeration request carries at most 200 identifiers, and the requests
\* of one lookup together carry the identifiers of the batch, each once, in
\* input order.
C20_Chunking ==
  lastCall.op \in {"getPmcIdFromIdConverter", "getLinksFromId"} =>
    /\ \A i \in 1 .. Len(lastCall.reqs) : Len(lastCall.reqs[i].ids) <= 200
    /\ RequestedIds(lastCall.reqs) = lastCall.pmids

\* C21: fetchArticles([]) and getFullText([]) return the empty sequence, make
\* no request and leave every file of the cache directory as it was, expired
\* and damaged ones included.
C21_EmptyBatch ==
  (lastCall.op \in {"fetchArticles", "getFullText"} /\ lastCall.pmids = <<>>) =>
    /\ ~lastCall.raised
    /\ lastCall.result = <<>>
    /\ lastCall.reqs = <<>>
    /\ lastCall.sumRead = lastCall.sumBefore
    /\ lastCall.ftRead = lastCall.ftBefore
    /\ summaryFiles = lastCall.sumBefore
    /\ fulltextFiles = lastCall.ftBefore

\* an empty fetchArticles over a cache directory that holds an expired entry,
\* which a read would have removed
C21_EmptyOverExpired ==
  /\ cacheEnabled
  /\ lastCall.op = "fetchArticles"
  /\ lastCall.pmids = <<>>
  /\ lastCall.result = <<>>
  /\ SummaryEntry(summaryFiles["1"])
  /\ ~FreshAt(summaryFiles["1"].obj.timestamp, lastCall.at)

\* C22 (as stated): when the search handler is called with
\* searchOptions.retMax = n, the search request is issued with page size n and
\* at most n results are returned.
C22_SearchPageSize ==
  (lastCall.op = "searchHandler.search" /\ "retMax" \in DOMAIN lastCall.options) =>
    /\ lastCall.reqs[1].retmax = lastCall.options.retMax
    /\ ~lastCall.raised => Len(lastCall.result) <= lastCall.options.retMax

\* a date option of a search call that is given: present and not empty
DateGiven(c, key) == key \in DOMAIN c.options /\ c.options[key] # ""

\* C23: the term of the search request is the query followed by the
\* publication-date clause when dateFrom or dateTo is given (a non-empty
\* string), with 1900/01/01 for a missing lower and 3000/12/31 for a missing
\* upper bound, and the query unchanged when neither is given; the returned
\* SearchResult has the requested retMax and retStart, 20 and 0 by default.
C23_DateFilter ==
  lastCall.op = "search" =>
    LET c == lastCall
        from == IF DateGiven(c, "dateFrom") THEN c.options.dateFrom ELSE "1900/01/01"
        to == IF DateGiven(c, "dateTo") THEN c.options.dateTo ELSE "3000/12/31"
    IN /\ c.reqs[1].term =
            IF DateGiven(c, "dateFrom") \/ DateGiven(c, "dateTo")
            THEN c.query \o " AND (\"" \o from \o "\"[Date - Publication] : \""
                         \o to \o "\"[Date - Publication])"
            ELSE c.query
       /\ ~c.raised =>
            /\ c.result.retMax = IF "retMax" \in DOMAIN c.options
                                 THEN c.options.retMax ELSE 20
            /\ c.result.retStart = IF "retStart" \in DOMAIN c.options
                                   THEN c.options.retStart ELSE 0

\* a search with an upper bound only and an offset
C23_UpperBoundOnly ==
  /\ lastCall.op = "search"
  /\ ~lastCall.raised
  /\ lastCall.options = [dateTo |-> "2021/12/31", retStart |-> 1]
  /\ lastCall.reqs[1].term =
       "cancer AND (\"1900/01/01\"[Date - Publication] : \"2021/12/31\"[Date - Publication])"
  /\ lastCall.result.retMax = 20
  /\ lastCall.result.retStart = 1

\* the normalized article of the call
NormalizedArticle == lastCall.result[1]

RepeatableFields == {"PubmedArticle", "Author", "AbstractText", "ELocationID", "ArticleId"}

\* the field of the parts holds a single node
IsSingle(parts, field) ==
  IF field = "PubmedArticle" THEN parts[field] = "single"
  ELSE parts[field].kind \notin {"undefined", "array"}

\* the parts with the single node of the field as a list of that node
Listed(parts, field) ==
  IF ~IsSingle(parts, field) THEN parts
  ELSE IF field = "PubmedArticle" THEN [parts EXCEPT ![field] = "list"]
  ELSE [parts EXCEPT ![field] = Arr(<<@>>)]

\* C24: for every repeatable field (article records, authors, abstract
\* sections, location ids, article ids), the payload with the field as a
\* single node normalizes to the same articles as the payload with the field
\* as the one-element list of that node.
C24_ShapeNormalization ==
  lastCall.op = "normalize" =>
    \A field \in RepeatableFields :
      FetchedArticles(Payload(Listed(lastCall.parts, field))) = lastCall.result

\* the text of a node: its own text, or the text under "#text"
NodeText(node) ==
  CASE node.kind = "string" -> node.text
    [] node.kind = "number" -> ToString(node.n)
    [] node.kind = "object" ->
         IF "#text" \in DOMAIN node.fields
         THEN (IF node.fields["#text"].kind = "number"
               THEN ToString(node.fields["#text"].n)
               ELSE node.fields["#text"].text)
         ELSE ""
    [] OTHER -> ""

\* the non-empty texts of the nodes, in order
RECURSIVE NonEmptyTexts(_)
NonEmptyTexts(nodes) ==
  IF nodes = <<>> THEN <<>>
  ELSE (IF NodeText(Head(nodes)) # "" THEN <<NodeText(Head(nodes))>> ELSE <<>>)
       \o NonEmptyTexts(Tail(nodes))

\* the abstract sections of the parts, one or several
SectionsOf(parts) ==
  IF parts.AbstractText.kind = "undefined" THEN <<>>
  ELSE IF parts.AbstractText.kind = "array" THEN parts.AbstractText.items
  ELSE <<parts.AbstractText>>

\* C25: the abstract is never the empty string; with several abstract
\* sections it is the non-empty section texts, in document order, joined by
\* a single space; it is absent when no non-empty section text remains.
C25_AbstractNormalization ==
  lastCall.op = "normalize" =>
    LET texts == NonEmptyTexts(SectionsOf(lastCall.parts))
    IN /\ NormalizedArticle.abstract # Str("")
       /\ lastCall.parts.AbstractText.kind = "array" /\ texts # <<>>
            => NormalizedArticle.abstract = Str(Join(texts, " "))
       /\ texts = <<>> => NormalizedArticle.abstract = Undef

\* the author nodes of the parts
AuthorNodesOf(parts) ==
  IF parts.Author.kind = "undefined" THEN <<>>
  ELSE IF parts.Author.kind = "array" THEN parts.Author.items
  ELSE <<parts.Author>>

\* the entries of the author nodes that have a surname, in order
RECURSIVE SurnameEntries(_)
SurnameEntries(nodes) ==
  IF nodes = <<>> THEN <<>>
  ELSE LET surname == NodeText(Prop(Head(nodes), "LastName"))
           given == NodeText(Prop(Head(nodes), "ForeName"))
       IN (IF surname = "" THEN <<>>
           ELSE IF given = "" THEN <<Str(surname)>>
           ELSE <<Str(surname \o ", " \o given)>>)
          \o SurnameEntries(Tail(nodes))

RECURSIVE PresentComponents(_, _)
PresentComponents(date, keys) ==
  IF keys = <<>> THEN <<>>
  ELSE (IF NodeText(Prop(date, Head(keys))) # ""
        THEN <<NodeText(Prop(date, Head(keys)))>> ELSE <<>>)
       \o PresentComponents(date, Tail(keys))

\* C27: pubDate is the present components among year, month and day, in
\* that order, joined by a hyphen, with no place kept for an omitted one;
\* it is the empty string with no component.
C27_DateNormalization ==
  lastCall.op = "normalize" =>
    NormalizedArticle.pubDate =
      Join(PresentComponents(lastCall.parts.PubDate, <<"Year", "Month", "Day">>), "-")

\* a date with a year and a day, without a month
C27_MonthOmitted ==
  /\ lastCall.op = "normalize"
  /\ lastCall.parts.PubDate.kind = "object"
  /\ DOMAIN lastCall.parts.PubDate.fields = {"Year", "Day"}
  /\ NormalizedArticle.pubDate = "2023-5"

\* the flag of the key is followed by a value at position i of the arguments
GivenAt(args, key, i) ==
  /\ i < Len(args)
  /\ args[i] \in Flags /\ FlagKeys[args[i]] = key
  /\ args[i + 1] \in ArgValues

\* the value given for the key on the command line: the one after the last
\* flag of the key that is followed by a value
CommandLineValue(args, key) ==
  IF \E i \in DOMAIN args : GivenAt(args, key, i)
  THEN args[(CHOOSE i \in DOMAIN args :
               /\ GivenAt(args, key, i)
               /\ \A j \in DOMAIN args : GivenAt(args, key, j) => j <= i) + 1]
  ELSE Undefined

\* the value of the key: command line before environment
Preferred(args, env, key) ==
  IF CommandLineValue(args, key) # Undefined THEN CommandLineValue(args, key)
  ELSE env[EnvVariable[key]]

\* C28: for each of email, API key, cache directory and cache TTL the value
\* of the command line goes before the one of the environment, which goes
\* before the default (none for the email, which is required; none for the
\* key and the directory; 86400 seconds); a flag without a following value
\* counts as not given.
C28_ConfigurationPrecedence ==
  lastCall.op = "configure" =>
    LET value(key) == Preferred(lastCall.args, lastCall.env, key)
    IN /\ lastCall.exit = 0 <=> value("email") # Undefined
       /\ lastCall.exit = 0 =>
            /\ lastCall.settings.email = value("email")
            /\ lastCall.settings.apiKey = value("api-key")
            /\ lastCall.settings.cacheDir = value("cache-dir")
            /\ lastCall.settings.cacheTTL =
                 IF value("cache-ttl") # Undefined THEN ParseInt(value("cache-ttl"))
                 ELSE Num(DefaultCacheTTL)

\* the email is given on both sides, the directory flag has no value, the
\* TTL is that of the environment
C28_FlagWithoutValue ==
  /\ lastCall.op = "configure"
  /\ lastCall.args = <<"--email", "cli", "--cache-dir">>
  /\ lastCall.env["PUBMED_EMAIL"] = "env@example.com"
  /\ lastCall.env["PUBMED_CACHE_DIR"] = "/env/cache"
  /\ lastCall.env["PUBMED_CACHE_TTL"] = "7200"
  /\ lastCall.exit = 0
  /\ lastCall.settings.email = "cli"
  /\ lastCall.settings.cacheDir = "/env/cache"
  /\ lastCall.settings.cacheTTL = Num(7200)

\* C29: in the result of getLinksFromId the URLs attached to an identifier
\* are exactly the URLs of the link set of that identifier itself, and the
\* URLs of the link set of another identifier are never attached to it.
C29_NoLinkMixing ==
  lastCall.op = "getLinksFromId" /\ "links" \in DOMAIN lastCall /\ ~lastCall.raised =>
    \A i \in DOMAIN lastCall.links :
      lastCall.links[i][2] = lastCall.urls[lastCall.links[i][1]]

\* the client c has a cache write in progress
Writing(c) == clients[c].pc \in {"writeSummary", "writeFullText"}

\* C30: for any interleaving of a fetchArticles and a getFullText call made
\* through the handlers, no two cache writes to the same location (kind of
\* entry, identifier) are in progress at the same time.
C30_NoConcurrentWriters ==
  \A c \in ClientIds, d \in ClientIds :
    c # d /\ Writing(c) /\ Writing(d) /\ clients[c].pc = clients[d].pc
      => clients[c].pmid # clients[d].pmid

\* the client c finds no valid summary of its article in the cache
SummaryMissOf(c) ==
  getCachedSummary(summaryFiles, clients[c].pmid, clock).ret # "value"

\* the tasks of the limiter ran one after the other: a task that has started
\* started after every call made before it had settled
OneAfterTheOther(cs) ==
  \A j \in DOMAIN cs, k \in DOMAIN cs :
    j < k /\ cs[k].startedAt # NotYet =>
      /\ cs[j].state \in {"fulfilled", "rejected"}
      /\ cs[j].settledAt <= cs[k].startedAt

\* C31: a fetchArticles call that misses the summary of its article makes a
\* summary request of its own, also while another call has a summary request
\* for the same article pending; the requests only run one after the other
\* in the throttle.
C31_NoDeduplication ==
  [][/\ \A c \in ClientIds :
          clients[c].pc = "summary" /\ clients'[c].pc # "summary" /\ SummaryMissOf(c) =>
            /\ Len(calls') = Len(calls) + 1
            /\ calls'[Len(calls')].by = c
            /\ calls'[Len(calls')].tool = "efetch"
            /\ clients'[c].request = Len(calls')
     /\ OneAfterTheOther(calls')]_vars

\* both calls missed the summary of article 1 before either request was
\* answered, and each awaits a request of its own
C31_TwoRequestsForOne ==
  /\ \A c \in ClientIds : clients[c].pc = "efetch" /\ clients[c].pmid = "1"
  /\ clients["fetchSummary"].request # clients["getFullText"].request
  /\ \A c \in ClientIds : calls[clients[c].request].tool = "efetch"
  /\ \E k \in DOMAIN calls : calls[k].state = "running"

\* call k was made
Submitted(k) == Len(calls) >= k

\* the task of call k has started and its own result or failure has been
\* delivered to the caller
Delivered(k) ==
  /\ Len(calls) >= k
  /\ Started(calls[k])
  /\ \/ calls[k].state = "fulfilled"
     \/ calls[k].state = "rejected" /\ calls[k].reason = k

\* C32: every call made to the throttle eventually starts its task and
\* delivers the result or the failure of that task to its caller, given that
\* every task that has started settles; a failing or slow earlier call does
\* not block a later one.
C32_ThrottleLiveness ==
  \A k \in 1 .. MaxSubmits : Submitted(k) ~> Delivered(k)

\* the first task failed, the third call delivered its result
C32_DeliveredAfterFailure ==
  /\ Len(calls) = 3
  /\ calls[1].state = "rejected"
  /\ Delivered(3)
  /\ calls[3].state = "fulfilled"

\* C33: a full text that getFullText stored with setCachedFullText comes
\* back from getCachedFullText, within the TTL, exactly as it was stored: the
\* marker line is taken off and no other character differs.
C33_FullTextRoundTrip ==
  lastCall.op = "getCachedFullText" /\ isCacheEntryValid(lastCall.at, now) =>
    /\ lastCall.read.ret = "value"
    /\ lastCall.read.value = lastCall.fullText

\* a text of two lines, the second indented, read back
C33_TwoLinesBack ==
  /\ lastCall.op = "getCachedFullText"
  /\ lastCall.fullText = <<"a", "\n", " ", "a">>
  /\ lastCall.read.value = <<"a", "\n", " ", "a">>

\* C34: a call that is served a valid entry leaves the stored entry as it
\* was, its creation time included: a read does not write the entry anew, so
\* the entry is served until TTL seconds after it was written and is asked
\* for again from then on, whatever was read in between.
C34_ReadsDoNotRefresh ==
  \A p \in Range(lastCall.pmids) :
    /\ ( /\ SummaryWasRead(lastCall, p)
         /\ SummaryEntry(lastCall.sumBefore[p])
         /\ FreshAt(lastCall.sumBefore[p].obj.timestamp, lastCall.at) )
       => summaryFiles[p] = lastCall.sumBefore[p]
    /\ ( /\ FullTextWasRead(lastCall, p)
         /\ FullTextEntry(lastCall.ftBefore[p])
         /\ FreshAt(lastCall.ftBefore[p].ts, lastCall.at) )
       => fulltextFiles[p] = lastCall.ftBefore[p]
    /\ ( /\ lastCall.op = "fetchArticles"
         /\ SummaryEntry(lastCall.sumBefore[p])
         /\ lastCall.at >= lastCall.sumBefore[p].obj.timestamp + TTLms )
       => p \in RequestedBy(lastCall, {"efetch"})

\* an entry written at time 0 was served half a TTL later and is as it was
C34_ServedHalfway ==
  /\ lastCall.op = "fetchArticles"
  /\ lastCall.pmids = <<"1">>
  /\ lastCall.at = HalfTickMs
  /\ lastCall.reqs = <<>>
  /\ SummaryEntry(summaryFiles["1"])
  /\ summaryFiles["1"].obj.timestamp = 0

\* the article of the summary file of p, where the file holds one
ArticleIn(f) == f.obj.data

\* the call wrote the summary file, the full-text file of p
SummaryWritten(c, p) ==
  c.op \in {"fetchArticles", "getFullText"} /\ summaryFiles[p] # c.sumRead[p]

FullTextWritten(c, p) ==
  c.op = "getFullText" /\ fulltextFiles[p] # c.ftRead[p]

\* C35: every summary file that holds an article holds, under p, an article
\* whose pmid is p; a summary entry written by a call holds the article made of
\* the record the service gave for p; and a full-text entry written by a call
\* for p holds the text of the full-text source that the call resolved for p,
\* so that the members of a group each hold the text of their shared source.
C35_CacheKeyMatchesContent ==
  \A p \in PMIDs :
    /\ (summaryFiles[p].kind = "json" /\ "data" \in DOMAIN summaryFiles[p].obj)
         => ArticleIn(summaryFiles[p]).pmid = p
    /\ SummaryWritten(lastCall, p)
         => /\ SummaryEntry(summaryFiles[p])
            /\ \E i \in 1 .. Len(lastCall.answer.records) :
                 /\ lastCall.answer.records[i].pmid = p
                 /\ ArticleIn(summaryFiles[p]) =
                      JsonStringify(NewArticle(lastCall.answer.records[i]))
    /\ FullTextWritten(lastCall, p)
         => /\ p \in DOMAIN lastCall.availability
            /\ lastCall.availability[p].pmcId # Undefined
            /\ fulltextFiles[p] =
                 TextFile(TRUE, lastCall.at, FullTextOf(lastCall.availability[p].pmcId))

\* one call wrote the entries of two identifiers with different sources, each
\* with the text of its own source, and the summaries of both
C35_TwoSourcesWritten ==
  /\ lastCall.op = "getFullText"
  /\ \A p \in {"1", "2"} : FullTextWritten(lastCall, p) /\ SummaryWritten(lastCall, p)
  /\ fulltextFiles["1"].body # fulltextFiles["2"].body

\* C36: in every result of a getFullText call that returns, fullText is null
\* or a string that is not empty, whether the result came from the cache (an
\* entry with nothing after its marker included) or from a fetched document
\* (one whose text is empty included).
C36_FullTextNeverEmpty ==
  (lastCall.op = "getFullText" /\ ~lastCall.raised)
    => \A i \in 1 .. Len(lastCall.result) : lastCall.result[i].fullText # ""

\* "1" had a fresh entry with only a blank after the marker, the document of
\* the source of "2" had no text: both results are there, none with ""
C36_BlankEntryAndEmptyDocument ==
  /\ lastCall.op = "getFullText"
  /\ ~lastCall.raised
  /\ lastCall.pmids = <<"1", "2">>
  /\ cacheEnabled
  /\ lastCall.ftBefore["1"] = TextFile(TRUE, lastCall.at, " ")
  /\ "2" \in DOMAIN lastCall.availability
  /\ lastCall.availability["2"].pmcId # Undefined
  /\ lastCall.docs[lastCall.availability["2"].pmcId] = "empty"
  /\ lastCall.result[2].fullText = Null

\* the call c returned a result for p without a full text
NullResult(c, p) ==
  /\ c.op = "getFullText"
  /\ ~c.raised
  /\ \E i \in 1 .. Len(c.result) :
       c.result[i].pmid = p /\ c.result[i].fullText = Null

\* the step is a getFullText call
FullTextCallStep == nops' = nops + 1 /\ lastCall'.op = "getFullText"

\* C37: a getFullText call leaves the full-text file of every identifier for
\* which it returns fullText = null as its cache check left it (it writes no
\* entry for it), and the next getFullText call for that identifier, however
\* much later, asks the remote services about it again.
C37_NegativeNotCached ==
  [][\A p \in PMIDs :
       /\ (FullTextCallStep /\ NullResult(lastCall', p))
            => fulltextFiles'[p] = lastCall'.ftRead[p]
       /\ (NullResult(lastCall, p) /\ FullTextCallStep /\ p \in Range(lastCall'.pmids))
            => p \in RequestedBy(lastCall', PmidTools)]_vars

\* the second call in a row for an identifier whose source has a document
\* without text: null again, resolved again, and no full-text file
C37_ResolvedAgain ==
  /\ cacheEnabled
  /\ diskWritable
  /\ nops = 2
  /\ NullResult(lastCall, "1")
  /\ SummaryEntry(lastCall.sumBefore["1"])
  /\ lastCall.availability["1"].pmcId # Undefined
  /\ lastCall.docs[lastCall.availability["1"].pmcId] = "empty"
  /\ "1" \in RequestedBy(lastCall, {"elink"})
  /\ fulltextFiles["1"] = NoFile

\* the record the service gave for p in its answer to the call c
RecordsOf(c, p) ==
  {c.answer.records[i] : i \in {j \in 1 .. Len(c.answer.records) :
                                  c.answer.records[j].pmid = p}}

\* C38: with caching enabled, a getFullText call for an identifier that has
\* neither a valid full-text entry nor a valid summary entry requests its
\* summary, and when the service answers with its record and the directory can
\* be written, the call leaves a summary entry for it, written at the time of
\* the call, whether or not a full text is found and whether or not the call
\* fails later on.
C38_FullTextCachesSummary ==
  \A p \in PMIDs :
    ( /\ lastCall.op = "getFullText"
      /\ SummaryWasRead(lastCall, p)
      /\ ~( /\ SummaryEntry(lastCall.sumBefore[p])
            /\ FreshAt(lastCall.sumBefore[p].obj.timestamp, lastCall.at) ) )
    => /\ p \in RequestedBy(lastCall, {"efetch"})
       /\ (lastCall.answer.ok /\ RecordsOf(lastCall, p) # {} /\ diskWritable)
            => /\ SummaryEntry(summaryFiles[p])
               /\ summaryFiles[p].obj.timestamp = lastCall.at
               /\ \E rec \in RecordsOf(lastCall, p) :
                    ArticleIn(summaryFiles[p]) = JsonStringify(NewArticle(rec))

\* an identifier with nothing in the cache and no full-text source: the result
\* has no full text, and its summary is in the cache
C38_SummaryLeftWithoutFullText ==
  /\ cacheEnabled
  /\ lastCall.op = "getFullText"
  /\ lastCall.pmids = <<"2">>
  /\ lastCall.sumBefore["2"] = NoFile
  /\ lastCall.ftBefore["2"] = NoFile
  /\ NullResult(lastCall, "2")
  /\ lastCall.availability["2"].pmcId = Undefined
  /\ SummaryEntry(summaryFiles["2"])
  /\ fulltextFiles["2"] = NoFile

====
